---------------------------- MODULE Spec2Model ----------------------------
(***************************************************************************)
(* A model of the VM inventory pass of export-for-vcenter:                 *)
(*   src/src/collectors/vm_collector.py   (VMCollector)                    *)
(*   src/src/vcenter_orchestrator.py      (VCenterOrchestrator)            *)
(*                                                                         *)
(* Python strings that the code inspects character by character (VM names  *)
(* and skip patterns) are sequences of one-character strings.  Python's    *)
(* None is the empty sequence and a value x that may be None is <<x>>.     *)
(* A dict is a function whose DOMAIN is the set of its keys.               *)
(***************************************************************************)
EXTENDS Integers, Sequences, FiniteSets, TLC

VARIABLES
    inventory,        \* the VMs the container view lists, in inventory order
    skip_file,        \* vm-skip-list.txt: None when there is no such file,
                      \* Some(the patterns it holds) when there is one
    connected,        \* orchestrator.vm_collector exists
    vm_skip_list,     \* VMCollector.vm_skip_list
    seen_uuids,       \* VMCollector.seen_uuids
    duplicate_uuids,  \* VMCollector.duplicate_uuids
    pc,               \* where collect_vm_data is, called on the orchestrator
                      \* step by step: "idle", "loop", "done", and "raised"
                      \* when an exception left it
    max_count,        \* collect_vm_data's argument
    vms_to_process,   \* collect_vm_data's local list
    i,                \* 1-based position of the loop in vms_to_process
    vm_data,          \* collect_vm_data's result under construction
    calls,            \* the collector methods called in this run, in order
    run,              \* which run this is: "none", "first", "again" (the same
                      \* collector once more), "fed" and then "refed" (a new
                      \* collector over the VMs the first run kept)
    prev_info,        \* vm_info returned by the previous run
    start_seen        \* seen_uuids when this run entered its loop

VARIABLES
    sk_list,          \* _should_skip_vm alone: the collector's vm_skip_list
    sk_name,          \* ... the name of the VM it is called with
    sk_raising,       \* ... the patterns (by position) for which re.search
                      \*     raises re.error
    sk_out            \* ... what the call did: None before it, then
                      \*     Some([raised, result])

VARIABLES
    container_views   \* the container views that collect_vm_data has
                      \*     created, in order: for each, how many times its
                      \*     Destroy() was called

view_vars == <<container_views>>

\* The state of the inventory pass.
collect_vars == <<inventory, skip_file, connected, vm_skip_list, seen_uuids,
                  duplicate_uuids, pc, max_count, vms_to_process, i, vm_data,
                  calls, run, prev_info, start_seen>>

skip_vars == <<sk_list, sk_name, sk_raising, sk_out>>

VARIABLES
    interval_mins,    \* _determine_sampling_parameters alone: its argument
    sampling          \* ... None before the call, then Some(what it returned)

sample_vars == <<interval_mins, sampling>>

VARIABLES
    perf_interval,      \* get_performance_properties: its interval_mins
    perf_out,           \* ... None before the call, then Some of the calls of
                        \*     collect_detailed_vm_metrics it made, in order,
                        \*     and the list it returned
    export_pc,          \* where collect_all_data is: "idle", "vm_data" (the
                        \*     performance metrics are in), "done"
    export_statistics,  \* collect_all_data's argument
    export_max_count,   \* collect_all_data's argument
    all_data            \* what collect_all_data returned, None before

perf_vars == <<perf_interval, perf_out, export_pc, export_statistics,
               export_max_count, all_data>>

VARIABLES
    service_instance, \* VCenterConnection.service_instance: None, or Some(n)
                      \*     for the session that the n-th SmartConnect opened
    content,          \* VCenterConnection.content: None, or Some(n) for the
                      \*     content retrieved from session n
    container,        \* VCenterConnection.container: its root folder
    sdk_log,          \* the calls made of pyVim.connect and of the session,
                      \*     in order
    conn_ops          \* the calls made of connect() and disconnect(), in
                      \*     order, each with how it ended

conn_vars == <<service_instance, content, container, sdk_log, conn_ops>>

VARIABLES
    main_pc,          \* where main() is: "start", "try", "export",
                      \*     "finally", "exited"
    main_args,        \* the command line, parsed
    main_path,        \* how the try block ended
    export_calls,     \* the calls made of orchestrator.export_data
    exit_requests,    \* the calls made of sys.exit, in order
    disconnect_calls, \* how many calls main() made of
                      \*     orchestrator.disconnect
    exit_status       \* the exit status of the process, None while it runs

main_vars == <<main_pc, main_args, main_path, export_calls, exit_requests,
               disconnect_calls, exit_status>>

VARIABLES
    metric_cache,         \* PerformanceCollector.metric_cache
    counters_initialized, \* PerformanceCollector.counters_initialized
    perf_counters,        \* PerformanceCollector.perf_counters
    perf_manager_log,     \* the reads of perfManager.perfCounter and the
                          \*     calls of QueryAvailablePerfMetric, in order
    metric_calls          \* get_available_metrics and _initialize_counters
                          \*     called alone: the calls made, in order, each
                          \*     with what it returned

metrics_vars == <<metric_cache, counters_initialized, perf_counters,
                  perf_manager_log, metric_calls>>

VARIABLES
    csv_files,        \* CSVExporter.csv_files: the files tracked, in order
    files,            \* the CSV files that exist (os.path.exists)
    files_before,     \* create_zip_archive called on the exporter, step by
                      \*     step: the files that existed when it was called
    purge_csv,        \* ... its argument
    zip_pc,           \* ... where it is: "idle", "write" (in the with
                      \*     block), "purge", "returned"
    zip_idx,          \* ... 1-based position of its loop in csv_files
    zipf,             \* ... the archive: its state ("none", "open",
                      \*     "closed", and "failed" when an exception left
                      \*     the with block) and the files written to it
    removed,          \* ... the files it gave to os.remove, in order
    zip_returned      \* ... None before it returns, then Some(what it
                      \*     returned)

zip_vars == <<csv_files, files, files_before, purge_csv, zip_pc, zip_idx,
              zipf, removed, zip_returned>>

\* The state beside the inventory pass, the skip matcher, the sampling
\* selector, the performance pass, the connection and main().
other_vars == <<metrics_vars, zip_vars>>

\* What the inventory pass does not touch.
beside_collect == <<skip_vars, sample_vars, perf_vars, conn_vars, main_vars,
                    other_vars>>

\* What connect() and the making of an orchestrator do not touch, the
\* inventory pass left aside.
beside_connect == <<skip_vars, sample_vars, perf_vars, main_vars, other_vars>>

\* What a call of _should_skip_vm alone does not touch.
beside_skip == <<collect_vars, sample_vars, perf_vars, conn_vars, main_vars,
                 other_vars, view_vars>>

\* What a call of _determine_sampling_parameters alone does not touch.
beside_sample == <<collect_vars, skip_vars, perf_vars, conn_vars, main_vars,
                   other_vars, view_vars>>

\* What the end of collect_all_data (the data are put together and returned)
\* does not touch, the inventory pass left aside.
beside_all_data == <<skip_vars, sample_vars, conn_vars, main_vars, other_vars,
                     view_vars>>

\* What get_performance_properties does not touch, the inventory pass left
\* aside: it fills the fields of the PerformanceCollector.
beside_perf_pass == <<skip_vars, sample_vars, conn_vars, main_vars, zip_vars,
                      view_vars, metric_calls>>

\* What the connection alone does not touch.
beside_conn == <<collect_vars, skip_vars, sample_vars, perf_vars, main_vars,
                 other_vars, view_vars>>

\* The VMCollector of the orchestrator: that there is one, and its fields.
collector_vars == <<connected, vm_skip_list, seen_uuids, duplicate_uuids>>

\* What export_data leaves behind it beside the ledger of the VMCollector:
\* the fields of the PerformanceCollector, the files tracked and those on
\* disk, the container views created.
exported_vars == <<metric_cache, counters_initialized, perf_counters,
                   perf_manager_log, csv_files, files, container_views>>

\* What main() does not touch: the inventory and the skip file, and what is
\* kept of collect_vm_data, collect_all_data, get_available_metrics,
\* create_zip_archive, _should_skip_vm and _determine_sampling_parameters
\* when they are called for themselves.
beside_main == <<inventory, skip_file, pc, max_count, vms_to_process, i,
                 vm_data, calls, run, prev_info, start_seen, skip_vars,
                 sample_vars, perf_vars, metric_calls, files_before,
                 purge_csv, zip_pc, zip_idx, zipf, removed, zip_returned>>

\* What get_available_metrics alone does not touch.
beside_metrics == <<collect_vars, skip_vars, sample_vars, perf_vars,
                    conn_vars, main_vars, zip_vars, view_vars>>

\* What create_zip_archive does not touch.
beside_zip == <<collect_vars, skip_vars, sample_vars, perf_vars, conn_vars,
                main_vars, metrics_vars, view_vars>>

vars == <<collect_vars, skip_vars, sample_vars, perf_vars, conn_vars,
          main_vars, other_vars, view_vars>>

(***************************************************************************)
(* Bounds of the model.                                                    *)
(***************************************************************************)
MaxVMs == 3

\* _should_skip_vm alone: the longest VM name and the longest skip list
MaxNameLen == 3

MaxPatterns == 2

\* _determine_sampling_parameters alone: the longest interval, in minutes
MaxIntervalMins == 86400

\* get_performance_properties alone: the most VMs in the inventory, and the
\* most of them that are not powered on
MaxPerfVMs == 13

MaxNotPoweredOn == 2

\* VCenterConnection alone: the most calls of connect() and disconnect()
MaxConnCalls == 4

\* PerformanceCollector alone: the most calls of get_available_metrics and
\* _initialize_counters
MaxMetricCalls == 4

\* CSVExporter alone: the most files tracked
MaxCsvFiles == 3

None == <<>>

Some(x) == <<x>>

(***************************************************************************)
(* The inventory: what the vCenter server may hold.                        *)
(***************************************************************************)
VMNames == { <<"t", "1">>, <<"p", "1">>, <<"p", "2">> }

PowerStates == { "poweredOn", "poweredOff", "suspended" }

GuestStates == { "running", "notRunning" }

IpAddresses == { "", "10.0.0.1" }

UUIDs == { "", "u1" }

\* vm-skip-list.txt: no such file; or a file with a literal pattern and a
\* wildcard pattern, which skip the name t1 and neither p1 nor p2.
SkipFiles == { None, Some(<< <<"x">>, <<"t", "*">> >>) }

\* VMCollector._load_vm_skip_list: the patterns of the file, and the empty
\* list when there is no file.
LoadVmSkipList(file) == IF file = None THEN <<>> ELSE file[1]

MaxCounts == { None, Some(2) }

\* collect_vm_data reads a VM's name, then its power and guest state, then
\* its address, then its UUID, and leaves the VM at the first check that
\* fails.  What it does not read is fixed, at the values a missing check
\* would let through: a VM that the skip file names is powered on with an
\* address and UUID u1, a VM that is not running is p1 with an address and
\* UUID u1, a VM with no address has UUID u1.  No check reads a VM's NICs or
\* disks: every VM has one of each.
VMShapes ==
    { s \in [ name : VMNames, powerState : PowerStates,
              guestState : GuestStates, ipAddress : IpAddresses, uuid : UUIDs,
              nics : { 1 }, disks : { 1 } ] :
        /\ s.name = <<"t", "1">>
              => s.powerState = "poweredOn" /\ s.guestState = "running"
        /\ (s.powerState = "poweredOff" \/ s.guestState = "notRunning")
              => s.name = <<"p", "1">>
        /\ (s.name = <<"t", "1">> \/ s.powerState = "poweredOff"
                \/ s.guestState = "notRunning")
              => s.ipAddress = "10.0.0.1"
        /\ (s.name = <<"t", "1">> \/ s.powerState = "poweredOff"
                \/ s.guestState = "notRunning" \/ s.ipAddress = "")
              => s.uuid = "u1" }

\* The managed object with id k and the attributes of shape s.  nics is the
\* number of entries of guest.net, disks the number of VirtualDisk devices of
\* config.hardware.device.
MkVM(k, s) ==
    [ moId |-> k, name |-> s.name, powerState |-> s.powerState,
      guestState |-> s.guestState, ipAddress |-> s.ipAddress, uuid |-> s.uuid,
      nics |-> s.nics, disks |-> s.disks ]

(***************************************************************************)
(* VMCollector._should_skip_vm                                             *)
(***************************************************************************)
RegexChars == { "*", "?", "[", "]", "(", ")", "{", "}", "|", "^", "$", "+", "\\" }

\* any(c in pattern for c in '*?[](){}|^$+\\')
HasRegexChar(pattern) == \E k \in 1..Len(pattern) : pattern[k] \in RegexChars

\* The literal pieces of a pattern between its stars: re.escape(pattern)
\* makes every character literal and .replace('\\*', '.*') turns each
\* escaped star into ".*".
RECURSIVE Segments(_)
Segments(pattern) ==
    IF \A k \in 1..Len(pattern) : pattern[k] # "*"
    THEN << pattern >>
    ELSE LET k == CHOOSE k \in 1..Len(pattern) :
                      /\ pattern[k] = "*"
                      /\ \A j \in 1..(k - 1) : pattern[j] # "*"
         IN  << SubSeq(pattern, 1, k - 1) >>
                 \o Segments(SubSeq(pattern, k + 1, Len(pattern)))

\* seg occurs in name at position pos
HasAt(name, pos, seg) ==
    /\ pos + Len(seg) - 1 <= Len(name)
    /\ \A k \in 1..Len(seg) : name[pos + k - 1] = seg[k]

\* "." matches any character but a newline
DotRun(name, pos, g) == \A k \in pos..(pos + g - 1) : name[k] # "\n"

\* The regular expression seg1 .* seg2 .* ... matches name from position pos.
RECURSIVE MatchAt(_, _, _)
MatchAt(segs, name, pos) ==
    LET seg == Head(segs)
        nxt == pos + Len(seg)
    IN  /\ HasAt(name, pos, seg)
        /\ \/ Len(segs) = 1
           \/ \E g \in 0..(Len(name) + 1 - nxt) :
                 /\ DotRun(name, nxt, g)
                 /\ MatchAt(Tail(segs), name, nxt + g)

\* re.search(re.escape(pattern).replace('\\*', '.*'), name)
ReSearch(pattern, name) ==
    \E pos \in 1..(Len(name) + 1) : MatchAt(Segments(pattern), name, pos)

\* One pattern of the skip list against a name.  The escaped pattern always
\* compiles, so the except re.error branch is never entered.
PatternSkips(pattern, name) ==
    IF HasRegexChar(pattern) THEN ReSearch(pattern, name) ELSE name = pattern

ShouldSkipVm(vm, skip_list) ==
    \E k \in 1..Len(skip_list) : PatternSkips(skip_list[k], vm.name)

\* pattern.replace("*", "")
StripStars(pattern) == SelectSeq(pattern, LAMBDA c : c # "*")

\* sub in name
Contains(name, sub) ==
    \E pos \in 1..(Len(name) + 1) : HasAt(name, pos, sub)

\* Mutant: no except clause, so that re.error leaves _should_skip_vm.
PatternOutcome_NoHandler(pattern, name, raises) ==
    IF HasRegexChar(pattern)
    THEN IF raises THEN "raise"
         ELSE IF ReSearch(pattern, name) THEN "skip" ELSE "next"
    ELSE IF name = pattern THEN "skip" ELSE "next"

\* Mutant: a pattern with no regex character is searched for in the name.
PatternOutcome_Substring(pattern, name, raises) ==
    IF HasRegexChar(pattern)
    THEN IF raises
         THEN IF Contains(name, StripStars(pattern)) THEN "skip" ELSE "next"
         ELSE IF ReSearch(pattern, name) THEN "skip" ELSE "next"
    ELSE IF Contains(name, pattern) THEN "skip" ELSE "next"

\* One turn of the loop of _should_skip_vm: "skip" is return True, "next" is
\* the next pattern, "raise" is an exception that leaves the method.  raises
\* says that re.search raises re.error in this turn.
PatternOutcome(pattern, name, raises) ==
    IF HasRegexChar(pattern)
    THEN IF raises
         THEN IF Contains(name, StripStars(pattern)) THEN "skip" ELSE "next"
         ELSE IF ReSearch(pattern, name) THEN "skip" ELSE "next"
    ELSE IF name = pattern THEN "skip" ELSE "next"

\* _should_skip_vm(vm) with vm.name = name: whether an exception left it and,
\* if none did, what it returned.  The first pattern that does not go on to the
\* next one decides.
ShouldSkipVmCall(name, skip_list, raising) ==
    LET out(k) == PatternOutcome(skip_list[k], name, k \in raising)
        decided == { k \in 1..Len(skip_list) : out(k) # "next" }
    IN  IF decided = {}
        THEN [ raised |-> FALSE, result |-> FALSE ]
        ELSE LET k == CHOOSE k \in decided : \A j \in decided : k <= j
             IN  [ raised |-> out(k) = "raise", result |-> out(k) = "skip" ]

(***************************************************************************)
(* VMCollector.get_vm_properties.  A VM whose config has no uuid, or an    *)
(* empty one, is a VM with uuid "": properties["VM UUID"] is "" for both.  *)
(* Likewise ipAddress "" is a guest with no, or an empty, ipAddress.       *)
(***************************************************************************)
\* Mutant: only the power state is looked at.
GetVmProperties_PowerOnly(vm) ==
    IF vm.powerState = "poweredOff"
    THEN None
    ELSE Some([ VM |-> vm.name,
                Powerstate |-> vm.powerState,
                PrimaryIpAddress |-> vm.ipAddress,
                VmId |-> vm.moId,
                VmUuid |-> vm.uuid ])

GetVmProperties(vm) ==
    IF vm.powerState = "poweredOff" \/ vm.guestState = "notRunning"
    THEN None
    ELSE Some([ VM |-> vm.name,
                Powerstate |-> vm.powerState,
                PrimaryIpAddress |-> vm.ipAddress,
                VmId |-> vm.moId,
                VmUuid |-> vm.uuid ])

(***************************************************************************)
(* VMCollector._is_duplicate_uuid: the result and the ledger after it.     *)
(***************************************************************************)
EmptyDict == [ u \in {} |-> <<>> ]

\* dict.get(key, default)
DictGet(d, key, default) == IF key \in DOMAIN d THEN d[key] ELSE default

\* Mutant: a first occurrence is not added to seen_uuids.
IsDuplicateUuid_NoRegister(props, seen, dups) ==
    LET uuid == DictGet(props, "VmUuid", "")
    IN  IF uuid # "" /\ uuid \in seen
        THEN [ result |-> TRUE,
               seen |-> seen,
               dups |-> IF uuid \in DOMAIN dups
                        THEN [ dups EXCEPT ![uuid] = Append(@, props.VM) ]
                        ELSE dups @@ (uuid :> << props.VM >>) ]
        ELSE [ result |-> FALSE, seen |-> seen, dups |-> dups ]

\* Mutant: the list of a UUID is replaced, not appended to.
IsDuplicateUuid_Overwrite(props, seen, dups) ==
    LET uuid == DictGet(props, "VmUuid", "")
    IN  IF uuid # "" /\ uuid \in seen
        THEN [ result |-> TRUE,
               seen |-> seen,
               dups |-> IF uuid \in DOMAIN dups
                        THEN [ dups EXCEPT ![uuid] = << props.VM >> ]
                        ELSE dups @@ (uuid :> << props.VM >>) ]
        ELSE [ result |-> FALSE,
               seen |-> IF uuid # "" THEN seen \cup { uuid } ELSE seen,
               dups |-> dups ]

\* Mutant: a repeat is logged but not reported (the return True is lost).
IsDuplicateUuid_LogOnly(props, seen, dups) ==
    LET uuid == DictGet(props, "VmUuid", "")
    IN  IF uuid # "" /\ uuid \in seen
        THEN [ result |-> FALSE,
               seen |-> seen,
               dups |-> IF uuid \in DOMAIN dups
                        THEN [ dups EXCEPT ![uuid] = Append(@, props.VM) ]
                        ELSE dups @@ (uuid :> << props.VM >>) ]
        ELSE [ result |-> FALSE,
               seen |-> IF uuid # "" THEN seen \cup { uuid } ELSE seen,
               dups |-> dups ]

\* Mutant: the empty UUID is treated like any other.
IsDuplicateUuid_EmptyCounts(props, seen, dups) ==
    LET uuid == DictGet(props, "VmUuid", "")
    IN  IF uuid \in seen
        THEN [ result |-> TRUE,
               seen |-> seen,
               dups |-> IF uuid \in DOMAIN dups
                        THEN [ dups EXCEPT ![uuid] = Append(@, props.VM) ]
                        ELSE dups @@ (uuid :> << props.VM >>) ]
        ELSE [ result |-> FALSE, seen |-> seen \cup { uuid }, dups |-> dups ]

\* Mutant: the repeat is looked for among the keys of duplicate_uuids.
IsDuplicateUuid_ChecksDups(props, seen, dups) ==
    LET uuid == DictGet(props, "VmUuid", "")
    IN  IF uuid # "" /\ uuid \in DOMAIN dups
        THEN [ result |-> TRUE,
               seen |-> seen,
               dups |-> [ dups EXCEPT ![uuid] = Append(@, props.VM) ] ]
        ELSE [ result |-> FALSE,
               seen |-> IF uuid # "" THEN seen \cup { uuid } ELSE seen,
               dups |-> dups ]

IsDuplicateUuid(props, seen, dups) ==
    LET uuid == DictGet(props, "VmUuid", "")
    IN  IF uuid # "" /\ uuid \in seen
        THEN [ result |-> TRUE,
               seen |-> seen,
               dups |-> IF uuid \in DOMAIN dups
                        THEN [ dups EXCEPT ![uuid] = Append(@, props.VM) ]
                        ELSE dups @@ (uuid :> << props.VM >>) ]
        ELSE [ result |-> FALSE,
               seen |-> IF uuid # "" THEN seen \cup { uuid } ELSE seen,
               dups |-> dups ]

(***************************************************************************)
(* The property getters of VMCollector whose rows go to the other tables.  *)
(* get_vm_network_properties returns a list, never None.  The k-th NIC of  *)
(* a VM is on network net<k>, its k-th disk has key k.                     *)
(***************************************************************************)
Row(vm) == [ VM |-> vm.name ]

\* The row of a NIC: "VM" and "Network"; "" for the NIC is the row added
\* when no NIC was found.
NetworkRow(vm, nic) == [ VM |-> vm.name, Network |-> nic ]

\* Mutant: a VM without NICs has no network properties.
GetVmNetworkProperties_NoneWithoutNics(vm) ==
    IF vm.nics > 0
    THEN Some([ k \in 1..vm.nics |-> NetworkRow(vm, "net" \o ToString(k)) ])
    ELSE None

\* Mutant: a VM without NICs gets no row.
GetVmNetworkProperties_NoPlaceholder(vm) ==
    Some([ k \in 1..vm.nics |-> NetworkRow(vm, "net" \o ToString(k)) ])

GetVmNetworkProperties(vm) ==
    IF vm.nics > 0
    THEN Some([ k \in 1..vm.nics |-> NetworkRow(vm, "net" \o ToString(k)) ])
    ELSE Some(<< NetworkRow(vm, "") >>)

\* The row of a disk: "VM", "Disk" and "Disk Key"; "" for both is the row
\* added when no disk was found.
DiskRow(vm, disk, key) == [ VM |-> vm.name, Disk |-> disk, DiskKey |-> key ]

\* Mutant: a VM without disks gets no row.
GetVmDiskProperties_NoPlaceholder(vm) ==
    [ k \in 1..vm.disks |-> DiskRow(vm, ToString(k), ToString(k)) ]

GetVmDiskProperties(vm) ==
    IF vm.disks > 0
    THEN [ k \in 1..vm.disks |-> DiskRow(vm, ToString(k), ToString(k)) ]
    ELSE << DiskRow(vm, "", "") >>

\* The row of a partition: "VM" and "Disk Key", one for each disk
PartitionRow(vm, key) == [ VM |-> vm.name, DiskKey |-> key ]

GetVmPartitionProperties(vm) ==
    IF vm.disks > 0
    THEN [ k \in 1..vm.disks |-> PartitionRow(vm, ToString(k)) ]
    ELSE << PartitionRow(vm, "") >>

EmptyVmData ==
    [ vm_info |-> <<>>, vm_network |-> <<>>, vm_cpu |-> <<>>,
      vm_memory |-> <<>>, vm_disk |-> <<>>, vm_partition |-> <<>>,
      vm_tools |-> <<>> ]

Call(fn, vm) == [ fn |-> fn, vm |-> vm.moId ]

(***************************************************************************)
(* VCenterOrchestrator.collect_vm_data: one iteration of its loop.         *)
(* Checks is the iteration up to the point where the VM's rows are added:  *)
(* the outcome, the ledger and the calls made.  st is the state the        *)
(* iteration starts in.                                                    *)
(***************************************************************************)
\* Mutant: the address is only required to be there ("is not None").
HasPrimaryIp_KeyOnly(props) == "PrimaryIpAddress" \in DOMAIN props

\* not vm_properties.get("Primary IP Address")
HasPrimaryIp(props) == DictGet(props, "PrimaryIpAddress", "") # ""

\* Mutant: the duplicate check is made before the address check.
Checks_DupBeforeIp(vm, st) ==
    LET c1 == Append(st.calls, Call("_should_skip_vm", vm))
        c2 == Append(c1, Call("get_vm_properties", vm))
        c3 == Append(c2, Call("_is_duplicate_uuid", vm))
        c4 == Append(c3, Call("get_vm_network_properties", vm))
        p  == GetVmProperties(vm)
        d  == IsDuplicateUuid(p[1], st.seen, st.dups)
        n  == GetVmNetworkProperties(vm)
        out(o, c, seen, dups) ==
            [ outcome |-> o, calls |-> c, seen |-> seen, dups |-> dups ]
    IN  IF ShouldSkipVm(vm, st.skip) THEN out("skipped", c1, st.seen, st.dups)
        ELSE IF p = None THEN out("not_running", c2, st.seen, st.dups)
        ELSE IF d.result THEN out("duplicate", c3, d.seen, d.dups)
        ELSE IF ~HasPrimaryIp(p[1]) THEN out("no_ip", c3, d.seen, d.dups)
        ELSE IF n = None THEN out("no_network", c4, d.seen, d.dups)
        ELSE out("kept", c4, d.seen, d.dups)

Checks(vm, st) ==
    LET c1 == Append(st.calls, Call("_should_skip_vm", vm))
        c2 == Append(c1, Call("get_vm_properties", vm))
        c3 == Append(c2, Call("_is_duplicate_uuid", vm))
        c4 == Append(c3, Call("get_vm_network_properties", vm))
        p  == GetVmProperties(vm)
        d  == IsDuplicateUuid(p[1], st.seen, st.dups)
        n  == GetVmNetworkProperties(vm)
        out(o, c, seen, dups) ==
            [ outcome |-> o, calls |-> c, seen |-> seen, dups |-> dups ]
    IN  IF ShouldSkipVm(vm, st.skip) THEN out("skipped", c1, st.seen, st.dups)
        ELSE IF p = None THEN out("not_running", c2, st.seen, st.dups)
        ELSE IF ~HasPrimaryIp(p[1]) THEN out("no_ip", c2, st.seen, st.dups)
        ELSE IF d.result THEN out("duplicate", c3, d.seen, d.dups)
        ELSE IF n = None THEN out("no_network", c4, d.seen, d.dups)
        ELSE out("kept", c4, d.seen, d.dups)

LoopBody(vm, st) ==
    LET c == Checks(vm, st)
        kept == [ vm_info      |-> Append(st.data.vm_info, GetVmProperties(vm)[1]),
                  vm_network   |-> st.data.vm_network \o GetVmNetworkProperties(vm)[1],
                  vm_cpu       |-> Append(st.data.vm_cpu, Row(vm)),
                  vm_memory    |-> Append(st.data.vm_memory, Row(vm)),
                  vm_disk      |-> st.data.vm_disk \o GetVmDiskProperties(vm),
                  vm_partition |-> st.data.vm_partition \o GetVmPartitionProperties(vm),
                  vm_tools     |-> Append(st.data.vm_tools, Row(vm)) ]
        more == << Call("get_vm_cpu_properties", vm),
                   Call("get_vm_memory_properties", vm),
                   Call("get_vm_disk_properties", vm),
                   Call("get_vm_partition_properties", vm),
                   Call("get_vm_tools_properties", vm) >>
    IN  [ skip  |-> st.skip,
          seen  |-> c.seen,
          dups  |-> c.dups,
          calls |-> IF c.outcome = "kept" THEN c.calls \o more ELSE c.calls,
          data  |-> IF c.outcome = "kept" THEN kept ELSE st.data ]

\* The iteration when the n-th collector call it makes raises: the calls up
\* to that one are made, the ledger is as _is_duplicate_uuid (the third call)
\* left it if that call returned, and the tables have the rows added before
\* the call: those of the network and of vm_info before the fifth call
\* (get_vm_cpu_properties), then one table more with every call.
LoopBodyRaising(vm, st, n) ==
    LET c == Checks(vm, st)
        whole == LoopBody(vm, st)
        rows(t, m) == IF n >= m THEN whole.data[t] ELSE st.data[t]
    IN  [ skip  |-> st.skip,
          seen  |-> IF n >= 4 THEN c.seen ELSE st.seen,
          dups  |-> IF n >= 4 THEN c.dups ELSE st.dups,
          calls |-> SubSeq(whole.calls, 1, Len(st.calls) + n),
          data  |-> [ vm_info      |-> rows("vm_info", 5),
                      vm_network   |-> rows("vm_network", 5),
                      vm_cpu       |-> rows("vm_cpu", 6),
                      vm_memory    |-> rows("vm_memory", 7),
                      vm_disk      |-> rows("vm_disk", 8),
                      vm_partition |-> rows("vm_partition", 9),
                      vm_tools     |-> st.data.vm_tools ] ]

LoopState ==
    [ skip |-> vm_skip_list, seen |-> seen_uuids, dups |-> duplicate_uuids,
      data |-> vm_data, calls |-> calls ]

\* Mutant: max_count is only tested for None, so that all_vms[:0] is empty
\* and all_vms[:-n] leaves the last n VMs out.
Limit_AnyInt(all_vms, mc) ==
    IF mc # None
    THEN LET last == IF mc[1] < 0 THEN Len(all_vms) + mc[1] ELSE mc[1]
         IN  SubSeq(all_vms, 1, IF last < Len(all_vms) THEN last ELSE Len(all_vms))
    ELSE all_vms

\* Mutant: the slice keeps one VM more than max_count.
Limit_OneMore(all_vms, mc) ==
    IF mc # None /\ mc[1] > 0
    THEN SubSeq(all_vms, 1,
                IF mc[1] + 1 < Len(all_vms) THEN mc[1] + 1 ELSE Len(all_vms))
    ELSE all_vms

\* all_vms[:max_count] when max_count is a positive int, all_vms otherwise
Limit(all_vms, mc) ==
    IF mc # None /\ mc[1] > 0
    THEN SubSeq(all_vms, 1, IF mc[1] < Len(all_vms) THEN mc[1] ELSE Len(all_vms))
    ELSE all_vms

\* _should_skip_vm is not being looked at alone.
SkipIdle ==
    /\ sk_list = <<>>
    /\ sk_name = <<>>
    /\ sk_raising = {}
    /\ sk_out = None

\* _determine_sampling_parameters is not being looked at alone.
SampleIdle ==
    /\ interval_mins = 0
    /\ sampling = None

\* VCenterConnection.__init__: nothing has been called yet.
ConnFresh ==
    /\ service_instance = None
    /\ content = None
    /\ container = None
    /\ sdk_log = <<>>
    /\ conn_ops = <<>>

\* main() is not run.
MainIdle ==
    /\ main_pc = "start"
    /\ main_args = None
    /\ main_path = "none"
    /\ export_calls = <<>>
    /\ exit_requests = <<>>
    /\ disconnect_calls = 0
    /\ exit_status = None

\* PerformanceCollector.__init__: nothing is cached, no counter is loaded.
MetricsFresh ==
    /\ metric_cache = EmptyDict
    /\ counters_initialized = FALSE
    /\ perf_counters = EmptyDict
    /\ perf_manager_log = <<>>
    /\ metric_calls = <<>>

\* collect_vm_data has created no container view.
ViewIdle == container_views = <<>>

\* No file is tracked, create_zip_archive is not called.
ZipIdle ==
    /\ csv_files = <<>>
    /\ files = {}
    /\ files_before = {}
    /\ purge_csv = FALSE
    /\ zip_pc = "idle"
    /\ zip_idx = 1
    /\ zipf = [ state |-> "none", written |-> <<>> ]
    /\ removed = <<>>
    /\ zip_returned = None

\* The state named by other_vars is as it is made.
OthersIdle == MetricsFresh /\ ZipIdle

\* No performance metrics are asked for, collect_all_data is not called.
PerfIdle ==
    /\ perf_interval = 0
    /\ perf_out = None
    /\ export_pc = "idle"
    /\ export_statistics = FALSE
    /\ export_max_count = None
    /\ all_data = None

(***************************************************************************)
(* VCenterConnection.  A connection is the record of its three fields and  *)
(* of the SDK calls made so far; connect() and disconnect() give the       *)
(* connection after the call and how the call ended.  What the SDK does is *)
(* an input: SmartConnect opens a session or raises, RetrieveContent       *)
(* answers or raises, Disconnect returns or raises.                        *)
(***************************************************************************)
Connection == [ service_instance |-> service_instance, content |-> content,
                container |-> container, sdk_log |-> sdk_log ]

\* How a call of connect() can go: the session is opened and its content
\* retrieved; SmartConnect raises vim.fault.InvalidLogin; SmartConnect raises
\* something else; the session is opened and RetrieveContent raises.
ConnectOutcomes == { "ok", "invalid_login", "connect_error", "content_error" }

SdkCall(fn, n) == [ fn |-> fn, si |-> n ]

\* The sessions that SmartConnect has opened.
SessionsOpened(log) ==
    Cardinality({ k \in 1..Len(log) : log[k].fn = "SmartConnect" /\ log[k].si > 0 })

\* VCenterConnection.connect(), SmartConnect and RetrieveContent going as
\* outcome says.  A SmartConnect that raised is logged with session 0.
ConnectionConnect(c, outcome) ==
    LET n == SessionsOpened(c.sdk_log) + 1
    IN  IF outcome \in { "invalid_login", "connect_error" }
        THEN [ conn |-> [ c EXCEPT !.sdk_log = Append(@, SdkCall("SmartConnect", 0)) ],
               returned |-> None, raised |-> FALSE ]
        ELSE IF outcome = "content_error"
        THEN [ conn |-> [ c EXCEPT
                            !.service_instance = Some(n),
                            !.sdk_log = @ \o << SdkCall("SmartConnect", n),
                                                SdkCall("atexit.register", n),
                                                SdkCall("RetrieveContent", n) >> ],
               returned |-> None, raised |-> FALSE ]
        ELSE [ conn |-> [ service_instance |-> Some(n),
                          content |-> Some(n),
                          container |-> Some(n),
                          sdk_log |-> c.sdk_log \o
                                         << SdkCall("SmartConnect", n),
                                            SdkCall("atexit.register", n),
                                            SdkCall("RetrieveContent", n) >> ],
               returned |-> Some(n), raised |-> FALSE ]

\* Mutant: Disconnect is called whether or not there is a session.
ConnectionDisconnect_Unguarded(c, sdk_raises) ==
    LET n == IF c.service_instance = None THEN 0 ELSE c.service_instance[1]
        called == [ c EXCEPT !.sdk_log = Append(@, SdkCall("Disconnect", n)) ]
    IN  IF sdk_raises
        THEN [ conn |-> called, returned |-> None, raised |-> TRUE ]
        ELSE [ conn |-> [ called EXCEPT !.service_instance = None,
                                        !.content = None,
                                        !.container = None ],
               returned |-> None, raised |-> FALSE ]

\* Mutant: content and container are left as they are.
ConnectionDisconnect_KeepsContent(c, sdk_raises) ==
    IF c.service_instance # None
    THEN LET called == [ c EXCEPT !.sdk_log =
                             Append(@, SdkCall("Disconnect", c.service_instance[1])) ]
         IN  IF sdk_raises
             THEN [ conn |-> called, returned |-> None, raised |-> TRUE ]
             ELSE [ conn |-> [ called EXCEPT !.service_instance = None ],
                    returned |-> None, raised |-> FALSE ]
    ELSE [ conn |-> c, returned |-> None, raised |-> FALSE ]

\* VCenterConnection.disconnect(); sdk_raises says that connect.Disconnect,
\* if called, raises (and the exception then leaves disconnect()).
ConnectionDisconnect(c, sdk_raises) ==
    IF c.service_instance # None
    THEN LET called == [ c EXCEPT !.sdk_log =
                             Append(@, SdkCall("Disconnect", c.service_instance[1])) ]
         IN  IF sdk_raises
             THEN [ conn |-> called, returned |-> None, raised |-> TRUE ]
             ELSE [ conn |-> [ called EXCEPT !.service_instance = None,
                                             !.content = None,
                                             !.container = None ],
                    returned |-> None, raised |-> FALSE ]
    ELSE [ conn |-> c, returned |-> None, raised |-> FALSE ]

\* The fields of the connection become those of c.
ConnectionBecomes(c) ==
    /\ service_instance' = c.service_instance
    /\ content' = c.content
    /\ container' = c.container
    /\ sdk_log' = c.sdk_log

ConnOp(op, r) == [ op |-> op, returned |-> r.returned, raised |-> r.raised ]

\* A VCenterConnection as __init__ makes it, no SDK call made yet.
FreshConnection ==
    [ service_instance |-> None, content |-> None, container |-> None,
      sdk_log |-> <<>> ]

\* VCenterOrchestrator.connect() from the connection c, the session opening
\* and its content being retrieved: connection.connect(), and then
\* PerformanceCollector.__init__, which retrieves the content of the session
\* once more.  (A connect() that fails makes no collector and returns False:
\* the connection then is as CallConnect leaves it.)
OrchestratorConnect(c) ==
    LET r == ConnectionConnect(c, "ok")
    IN  [ conn |-> [ r.conn EXCEPT !.sdk_log =
                        Append(@, SdkCall("RetrieveContent", r.returned[1])) ],
          returned |-> r.returned, raised |-> r.raised ]

\* The connection is as connect() on a new orchestrator leaves it.
ConnOpened ==
    LET r == OrchestratorConnect(FreshConnection)
    IN  /\ service_instance = r.conn.service_instance
        /\ content = r.conn.content
        /\ container = r.conn.container
        /\ sdk_log = r.conn.sdk_log
        /\ conn_ops = << ConnOp("connect", r) >>

(***************************************************************************)
(* Actions                                                                 *)
(***************************************************************************)
Init ==
    /\ \E n \in 0..MaxVMs : \E f \in [ 1..n -> VMShapes ] :
          inventory = [ k \in 1..n |-> MkVM(k, f[k]) ]
    /\ skip_file \in SkipFiles
    /\ connected = FALSE
    /\ vm_skip_list = <<>>
    /\ seen_uuids = {}
    /\ duplicate_uuids = EmptyDict
    /\ pc = "idle"
    /\ max_count = None
    /\ vms_to_process = <<>>
    /\ i = 1
    /\ vm_data = EmptyVmData
    /\ calls = <<>>
    /\ run = "none"
    /\ prev_info = <<>>
    /\ start_seen = {}
    /\ SkipIdle
    /\ SampleIdle
    /\ PerfIdle
    /\ ConnFresh
    /\ MainIdle
    /\ OthersIdle
    /\ ViewIdle

\* Mutant: the ledger outlives the collector (it is shared by all of them).
Connect_SharedLedger ==
    /\ ~connected
    /\ LET r == OrchestratorConnect(Connection)
       IN  /\ ConnectionBecomes(r.conn)
           /\ conn_ops' = Append(conn_ops, ConnOp("connect", r))
    /\ connected' = TRUE
    /\ vm_skip_list' = LoadVmSkipList(skip_file)
    /\ UNCHANGED <<inventory, skip_file, seen_uuids, duplicate_uuids, pc,
                   max_count, vms_to_process, i, vm_data, calls, run,
                   prev_info, start_seen>>
    /\ UNCHANGED view_vars
    /\ UNCHANGED beside_connect

\* VCenterOrchestrator.connect, the session opening: the connection is
\* made, then a new VMCollector, which loads the skip list and starts with an
\* empty ledger, and a new PerformanceCollector.
Connect ==
    /\ ~connected
    /\ LET r == OrchestratorConnect(Connection)
       IN  /\ ConnectionBecomes(r.conn)
           /\ conn_ops' = Append(conn_ops, ConnOp("connect", r))
    /\ connected' = TRUE
    /\ vm_skip_list' = LoadVmSkipList(skip_file)
    /\ seen_uuids' = {}
    /\ duplicate_uuids' = EmptyDict
    /\ UNCHANGED <<inventory, skip_file, pc, max_count, vms_to_process, i,
                   vm_data, calls, run, prev_info, start_seen>>
    /\ UNCHANGED view_vars
    /\ UNCHANGED beside_connect

\* collect_vm_data(mc) up to its loop: the container view is created, then
\* the try statement is entered
Enter(mc, which) ==
    /\ container_views' = Append(container_views, 0)
    /\ max_count' = mc
    /\ vms_to_process' = Limit(inventory, mc)
    /\ i' = 1
    /\ vm_data' = EmptyVmData
    /\ calls' = <<>>
    /\ pc' = "loop"
    /\ run' = which
    /\ prev_info' = vm_data.vm_info
    /\ start_seen' = seen_uuids
    /\ UNCHANGED <<inventory, skip_file, connected, vm_skip_list, seen_uuids,
                   duplicate_uuids>>
    /\ UNCHANGED beside_collect

\* The first collect_vm_data(max_count) of a collector.
StartCollect ==
    /\ connected
    /\ pc = "idle"
    /\ \/ run = "none" /\ \E mc \in MaxCounts : Enter(mc, "first")
       \/ run = "fed" /\ Enter(max_count, "refed")

\* collect_vm_data called once more on the same orchestrator, with the same
\* argument and the inventory unchanged.
CollectAgain ==
    /\ pc = "done"
    /\ run = "first"
    /\ Enter(max_count, "again")

\* The VMs of the inventory that have a row in vm_info.
KeptVMs ==
    SelectSeq(inventory,
              LAMBDA vm : \E k \in 1..Len(vm_data.vm_info) :
                              vm_data.vm_info[k].VmId = vm.moId)

\* The environment: the inventory becomes the VMs the first run kept, and a
\* new orchestrator is made for it (same skip file), not yet connected: its
\* connection is new and no SDK call has been made for it.
Refeed ==
    /\ pc = "done"
    /\ run = "first"
    /\ inventory' = KeptVMs
    /\ connected' = FALSE
    /\ pc' = "idle"
    /\ run' = "fed"
    /\ ConnectionBecomes(FreshConnection)
    /\ conn_ops' = <<>>
    /\ UNCHANGED <<skip_file, vm_skip_list, seen_uuids, duplicate_uuids,
                   max_count, vms_to_process, i, vm_data, calls, prev_info,
                   start_seen>>
    /\ UNCHANGED view_vars
    /\ UNCHANGED beside_connect

ProcessVM ==
    /\ pc = "loop"
    /\ i <= Len(vms_to_process)
    /\ LET st == LoopBody(vms_to_process[i], LoopState)
       IN  /\ vm_data' = st.data
           /\ seen_uuids' = st.seen
           /\ duplicate_uuids' = st.dups
           /\ calls' = st.calls
    /\ i' = i + 1
    /\ UNCHANGED <<inventory, skip_file, connected, vm_skip_list, pc,
                   max_count, vms_to_process, run, prev_info, start_seen>>
    /\ UNCHANGED view_vars
    /\ UNCHANGED beside_collect

\* finally: container_view.Destroy(), for the view that this run created
DestroyView ==
    container_views' =
        [ container_views EXCEPT ![Len(container_views)] = @ + 1 ]

\* The loop is over: the summary is printed, the view destroyed, vm_data
\* returned.
FinishCollect ==
    /\ pc = "loop"
    /\ i > Len(vms_to_process)
    /\ pc' = "done"
    /\ DestroyView
    /\ UNCHANGED <<inventory, skip_file, connected, vm_skip_list, seen_uuids,
                   duplicate_uuids, max_count, vms_to_process, i, vm_data,
                   calls, run, prev_info, start_seen>>
    /\ UNCHANGED beside_collect

Next ==
    \/ Connect
    \/ StartCollect
    \/ CollectAgain
    \/ Refeed
    \/ ProcessVM
    \/ FinishCollect

Spec == Init /\ [][Next]_vars

(***************************************************************************)
(* What the properties below speak of.                                     *)
(***************************************************************************)
VMAt(k) == vms_to_process[k]

\* The VMs of this run that have been through the loop.
Processed == 1..(i - 1)

\* vm has a row in vm_info (a row names its VM by the managed object id).
InInfo(vm) ==
    \E r \in 1..Len(vm_data.vm_info) : vm_data.vm_info[r].VmId = vm.moId

SkippedByName(vm) == ShouldSkipVm(vm, vm_skip_list)

NotRunning(vm) == vm.powerState = "poweredOff" \/ vm.guestState = "notRunning"

\* vm clears the name, state and address checks, and so reaches the
\* duplicate check.
ClearsFirstThree(vm) ==
    ~SkippedByName(vm) /\ ~NotRunning(vm) /\ vm.ipAddress # ""

\* The names logged under UUID u.
LedgerOf(u) == DictGet(duplicate_uuids, u, <<>>)

NameLogged(vm) ==
    \E n \in 1..Len(LedgerOf(vm.uuid)) : LedgerOf(vm.uuid)[n] = vm.name

\* An iteration of the loop of collect_vm_data is taken.
LoopStep == pc = "loop" /\ i' = i + 1

\* The collector methods the iteration calls, in order.
CalledNow ==
    [ n \in 1..(Len(calls') - Len(calls)) |-> calls'[Len(calls) + n].fn ]

(***************************************************************************)
(* C1.  A VM has a row in vm_info only if _should_skip_vm was False for    *)
(* it, get_vm_properties did not return None for it and, when its UUID is  *)
(* not empty, no earlier VM of this run brought that UUID to the duplicate *)
(* check.                                                                  *)
(***************************************************************************)
C1_KeptOnlyIfPassed ==
    \A k \in 1..Len(vms_to_process) :
        InInfo(VMAt(k)) =>
            /\ k \in Processed
            /\ ~SkippedByName(VMAt(k))
            /\ GetVmProperties(VMAt(k)) # None
            /\ VMAt(k).uuid # "" =>
                  \A j \in 1..(k - 1) :
                      ~(VMAt(j).uuid = VMAt(k).uuid /\ ClearsFirstThree(VMAt(j)))

\* A run that kept a VM with a UUID and dropped a later one bearing it, and
\* dropped a VM for its name and one for its state.
C1_Witness ==
    /\ pc = "done"
    /\ \E j, k \in Processed :
          /\ j < k
          /\ VMAt(j).uuid = "u1" /\ VMAt(k).uuid = "u1"
          /\ InInfo(VMAt(j)) /\ ~InInfo(VMAt(k)) /\ ClearsFirstThree(VMAt(k))
    /\ \E k \in Processed : SkippedByName(VMAt(k)) \/ NotRunning(VMAt(k))

(***************************************************************************)
(* C2.  As claimed: once a VM with UUID u is kept, every later VM of the   *)
(* run that bears u is kept out of vm_info and its name is in              *)
(* duplicate_uuids[u].                                                     *)
(***************************************************************************)
C2_EveryLaterBearerLogged ==
    \A j, k \in Processed :
        (pc # "idle" /\ j < k /\ InInfo(VMAt(j)) /\ VMAt(j).uuid # ""
               /\ VMAt(k).uuid = VMAt(j).uuid)
            => ~InInfo(VMAt(k)) /\ NameLogged(VMAt(k))

\* The names of the VMs after position j that bear u and reach the
\* duplicate check, in inventory order.
LaterRepeats(j, u) ==
    LET later == SelectSeq(SubSeq(vms_to_process, j + 1, i - 1),
                           LAMBDA vm : vm.uuid = u /\ ClearsFirstThree(vm))
    IN  [ n \in 1..Len(later) |-> later[n].name ]

(***************************************************************************)
(* C2, amended.  Once a VM with UUID u is kept, every later VM of the run  *)
(* that bears u is kept out of vm_info, and duplicate_uuids[u] lists, in   *)
(* order and however many they are, the names of exactly those later       *)
(* bearers that clear the name, state and address checks: a bearer that    *)
(* one of these checks drops is not logged.                                *)
(***************************************************************************)
C2_LaterBearersRejected ==
    \A j \in Processed :
        (pc # "idle" /\ InInfo(VMAt(j)) /\ VMAt(j).uuid # "") =>
            /\ \A k \in Processed :
                  (j < k /\ VMAt(k).uuid = VMAt(j).uuid) => ~InInfo(VMAt(k))
            /\ LedgerOf(VMAt(j).uuid) = LaterRepeats(j, VMAt(j).uuid)
            /\ (LaterRepeats(j, VMAt(j).uuid) # <<>>)
                  <=> (VMAt(j).uuid \in DOMAIN duplicate_uuids)

\* A kept VM is followed by two logged repeats.
C2_Witness ==
    /\ pc = "done"
    /\ \E j \in Processed :
          /\ InInfo(VMAt(j)) /\ VMAt(j).uuid = "u1"
          /\ Len(LaterRepeats(j, "u1")) = 2

\* A kept VM is followed by a bearer of its UUID that has no address, and
\* by one that is logged.
C2_WitnessUnlogged ==
    /\ pc = "done"
    /\ \E j, k \in Processed :
          /\ j < k /\ InInfo(VMAt(j)) /\ VMAt(j).uuid = "u1"
          /\ VMAt(k).uuid = "u1" /\ ~ClearsFirstThree(VMAt(k))
          /\ Len(LaterRepeats(j, "u1")) = 1

(***************************************************************************)
(* C3.  As claimed: of two VMs with the same non-empty UUID that both pass *)
(* the state and address checks, the first is kept, the second is not and  *)
(* the second's name is in duplicate_uuids[uuid].                          *)
(***************************************************************************)
C3_FirstOfEveryPairKept ==
    pc = "done" =>
        \A j, k \in Processed :
            (/\ j < k
             /\ VMAt(j).uuid # "" /\ VMAt(k).uuid = VMAt(j).uuid
             /\ ~NotRunning(VMAt(j)) /\ VMAt(j).ipAddress # ""
             /\ ~NotRunning(VMAt(k)) /\ VMAt(k).ipAddress # "")
                => InInfo(VMAt(j)) /\ ~InInfo(VMAt(k)) /\ NameLogged(VMAt(k))

(***************************************************************************)
(* C3, amended.  Of two VMs with the same non-empty UUID that both clear   *)
(* the name, state and address checks, the second is not kept and its name *)
(* is in duplicate_uuids[uuid]; the first is kept exactly when it is the   *)
(* first such VM of the run and the UUID was not in seen_uuids when the    *)
(* run began.                                                              *)
(***************************************************************************)
C3_FirstClearingWins ==
    \A j, k \in Processed :
        (/\ pc # "idle"
         /\ j < k
         /\ VMAt(j).uuid # "" /\ VMAt(k).uuid = VMAt(j).uuid
         /\ ClearsFirstThree(VMAt(j)) /\ ClearsFirstThree(VMAt(k)))
            => /\ ~InInfo(VMAt(k))
               /\ NameLogged(VMAt(k))
               /\ InInfo(VMAt(j)) <=>
                     /\ VMAt(j).uuid \notin start_seen
                     /\ \A h \in 1..(j - 1) :
                           ~(VMAt(h).uuid = VMAt(j).uuid
                               /\ ClearsFirstThree(VMAt(h)))

\* Three VMs with one UUID reach the duplicate check: the middle one is the
\* first of a pair and is not kept.
C3_Witness ==
    /\ pc = "done"
    /\ \E h, j, k \in Processed :
          /\ h < j /\ j < k
          /\ \A x \in { h, j, k } :
                VMAt(x).uuid = "u1" /\ ClearsFirstThree(VMAt(x))
          /\ InInfo(VMAt(h)) /\ ~InInfo(VMAt(j)) /\ ~InInfo(VMAt(k))
          /\ VMAt(j).name # VMAt(k).name

(***************************************************************************)
(* C4.  The checks are made in the order name, state, address, duplicate   *)
(* and the first that fails ends the iteration: a VM dropped by one of the *)
(* first three is not passed to the later checks and leaves seen_uuids,    *)
(* duplicate_uuids and vm_data as they were.                               *)
(***************************************************************************)
C4_ChecksInOrder ==
    [][ LoopStep =>
          LET vm == VMAt(i) IN
          /\ SkippedByName(vm) =>
                /\ CalledNow = << "_should_skip_vm" >>
                /\ UNCHANGED <<seen_uuids, duplicate_uuids, vm_data>>
          /\ (~SkippedByName(vm) /\ (NotRunning(vm) \/ vm.ipAddress = "")) =>
                /\ CalledNow = << "_should_skip_vm", "get_vm_properties" >>
                /\ UNCHANGED <<seen_uuids, duplicate_uuids, vm_data>>
          /\ ClearsFirstThree(vm) =>
                SubSeq(CalledNow, 1, 3) = << "_should_skip_vm",
                                            "get_vm_properties",
                                            "_is_duplicate_uuid" >>
      ]_vars

\* A run dropped a VM for its name, one for its state and one for its
\* missing address, each bearing u1, and the ledger is still empty.
C4_Witness ==
    /\ pc = "done"
    /\ seen_uuids = {} /\ duplicate_uuids = EmptyDict
    /\ \E h, j, k \in Processed :
          /\ SkippedByName(VMAt(h)) /\ VMAt(h).uuid = "u1"
          /\ ~SkippedByName(VMAt(j)) /\ NotRunning(VMAt(j)) /\ VMAt(j).uuid = "u1"
          /\ ~SkippedByName(VMAt(k)) /\ ~NotRunning(VMAt(k))
          /\ VMAt(k).ipAddress = "" /\ VMAt(k).uuid = "u1"

(***************************************************************************)
(* C5.  get_vm_properties returns None exactly for a VM that is powered    *)
(* off or whose guest is not running, a record with the VM's power state   *)
(* otherwise; an iteration over such a VM adds nothing to any table, and   *)
(* no such VM ever has a row in vm_info.                                   *)
(***************************************************************************)
C5_NotRunningNeverKept ==
    [][ LoopStep =>
          LET vm == VMAt(i) IN
          /\ (GetVmProperties(vm) = None) <=>
                (vm.powerState = "poweredOff" \/ vm.guestState = "notRunning")
          /\ GetVmProperties(vm) # None =>
                GetVmProperties(vm)[1].Powerstate = vm.powerState
          /\ (vm.powerState = "poweredOff" \/ vm.guestState = "notRunning") =>
                vm_data' = vm_data
          /\ \A k \in 1..Len(vms_to_process) :
                (VMAt(k).powerState = "poweredOff"
                    \/ VMAt(k).guestState = "notRunning") =>
                    \A r \in 1..Len(vm_data'.vm_info) :
                        vm_data'.vm_info[r].VmId # VMAt(k).moId
      ]_vars

\* A run over a VM that is powered on with a guest not running, a VM that
\* is powered off with a guest running, and a suspended VM, which is kept.
C5_Witness ==
    /\ pc = "done"
    /\ \E h, j, k \in Processed :
          /\ VMAt(h).powerState = "poweredOn" /\ VMAt(h).guestState = "notRunning"
          /\ VMAt(j).powerState = "poweredOff" /\ VMAt(j).guestState = "running"
          /\ VMAt(k).powerState = "suspended" /\ InInfo(VMAt(k))
    /\ Len(vm_data.vm_info) = 1

(***************************************************************************)
(* C6.  An iteration over a VM with an empty primary address adds nothing  *)
(* to any table and calls none of the network, CPU, memory, disk,          *)
(* partition or tools getters, whatever the VM's state and UUID; no such   *)
(* VM ever has a row in vm_info.                                           *)
(***************************************************************************)
RowGetters ==
    { "get_vm_network_properties", "get_vm_cpu_properties",
      "get_vm_memory_properties", "get_vm_disk_properties",
      "get_vm_partition_properties", "get_vm_tools_properties" }

C6_NoAddressNeverKept ==
    [][ LoopStep =>
          /\ VMAt(i).ipAddress = "" =>
                /\ vm_data' = vm_data
                /\ \A n \in 1..Len(CalledNow) : CalledNow[n] \notin RowGetters
          /\ \A k \in 1..Len(vms_to_process) :
                VMAt(k).ipAddress = "" =>
                    \A r \in 1..Len(vm_data'.vm_info) :
                        vm_data'.vm_info[r].VmId # VMAt(k).moId
      ]_vars

\* A run over one VM, which is running, not named by the skip file, the
\* only bearer of its UUID and without an address: nothing is kept and no
\* row getter was called.
C6_Witness ==
    /\ pc = "done" /\ run = "first"
    /\ Len(vms_to_process) = 1
    /\ VMAt(1).ipAddress = "" /\ VMAt(1).uuid = "u1"
    /\ ~SkippedByName(VMAt(1)) /\ ~NotRunning(VMAt(1))
    /\ vm_data = EmptyVmData
    /\ Len(calls) = 2

(***************************************************************************)
(* C7.  A VM with an empty (or missing) UUID that reaches the duplicate    *)
(* check is not a duplicate: it is kept, and seen_uuids and                *)
(* duplicate_uuids stay as they were; so every such VM of a run is kept,   *)
(* however many there are.                                                 *)
(***************************************************************************)
C7_EmptyUuidNeverDuplicate ==
    [][ LoopStep =>
          /\ (ClearsFirstThree(VMAt(i)) /\ VMAt(i).uuid = "") =>
                /\ UNCHANGED <<seen_uuids, duplicate_uuids>>
                /\ Len(vm_data'.vm_info) = Len(vm_data.vm_info) + 1
                /\ vm_data'.vm_info[Len(vm_data'.vm_info)].VmId = VMAt(i).moId
          /\ \A k \in 1..i :
                (ClearsFirstThree(VMAt(k)) /\ VMAt(k).uuid = "") =>
                    \E r \in 1..Len(vm_data'.vm_info) :
                        vm_data'.vm_info[r].VmId = VMAt(k).moId
      ]_vars

\* A run kept three VMs without UUID and its ledger is empty.
C7_Witness ==
    /\ pc = "done"
    /\ Len(vm_data.vm_info) = 3
    /\ \A k \in Processed : VMAt(k).uuid = "" /\ InInfo(VMAt(k))
    /\ seen_uuids = {} /\ duplicate_uuids = EmptyDict

(***************************************************************************)
(* C8.  For a VM with a non-empty UUID u that reaches the duplicate check: *)
(* it is reported a duplicate (and so not kept) exactly when u is in       *)
(* seen_uuids; then its name is appended to duplicate_uuids[u], a list     *)
(* that is created if u has none, and seen_uuids stays; otherwise u is     *)
(* added to seen_uuids, duplicate_uuids stays and the VM is kept.          *)
(***************************************************************************)
C8_DuplicateIffSeen ==
    [][ (LoopStep /\ ClearsFirstThree(VMAt(i)) /\ VMAt(i).uuid # "") =>
          LET vm == VMAt(i)
              u  == vm.uuid
          IN  IF u \in seen_uuids
              THEN /\ vm_data' = vm_data
                   /\ CalledNow = << "_should_skip_vm", "get_vm_properties",
                                     "_is_duplicate_uuid" >>
                   /\ seen_uuids' = seen_uuids
                   /\ DOMAIN duplicate_uuids' = DOMAIN duplicate_uuids \cup { u }
                   /\ duplicate_uuids'[u] = Append(LedgerOf(u), vm.name)
                   /\ \A w \in DOMAIN duplicate_uuids \ { u } :
                         duplicate_uuids'[w] = duplicate_uuids[w]
              ELSE /\ seen_uuids' = seen_uuids \cup { u }
                   /\ duplicate_uuids' = duplicate_uuids
                   /\ Len(vm_data'.vm_info) = Len(vm_data.vm_info) + 1
                   /\ vm_data'.vm_info[Len(vm_data'.vm_info)].VmId = vm.moId
      ]_vars

\* A first occurrence was registered, a repeat made the list and a second
\* repeat was appended to it.
C8_Witness ==
    /\ pc = "done" /\ run = "first"
    /\ seen_uuids = { "u1" }
    /\ Len(vm_data.vm_info) = 1
    /\ DOMAIN duplicate_uuids = { "u1" }
    /\ Len(duplicate_uuids["u1"]) = 2
    /\ duplicate_uuids["u1"][1] # duplicate_uuids["u1"][2]

(***************************************************************************)
(* C9.  As claimed: every run of collect_vm_data starts from an empty      *)
(* ledger, and a second run on the same orchestrator over the same         *)
(* inventory returns the vm_info the first returned.                       *)
(***************************************************************************)
C9_LedgerEmptyAtEachRun ==
    /\ (pc = "loop" /\ i = 1) =>
          (seen_uuids = {} /\ duplicate_uuids = EmptyDict)
    /\ (pc = "done" /\ run = "again") => vm_data.vm_info = prev_info

(***************************************************************************)
(* C10.  Run over the VMs a first run kept, with the same skip list and    *)
(* max_count and a new collector, collect_vm_data keeps them all, in the   *)
(* same order, and logs no duplicate.                                      *)
(***************************************************************************)
C10_FilterIdempotent ==
    (pc = "done" /\ run = "refed") =>
        /\ vm_data.vm_info = prev_info
        /\ Len(vm_data.vm_info) = Len(vms_to_process)
        /\ duplicate_uuids = EmptyDict

\* The first run dropped its first VM and kept two, one with a UUID and one
\* without; the second pass over these two is over.
C10_Witness ==
    /\ pc = "done" /\ run = "refed"
    /\ Len(prev_info) = 2
    /\ prev_info[1].VmId = 2
    /\ \E r \in 1..2 : prev_info[r].VmUuid = "u1"
    /\ \E r \in 1..2 : prev_info[r].VmUuid = ""


(***************************************************************************)
(* _should_skip_vm alone: one call, for any skip list and any name.        *)
(***************************************************************************)
\* The characters of VM names: two letters that differ in case only, a
\* character that is special in a regular expression, and the one character
\* that "." does not match.
NameChars == { "a", "A", "?", "\n" }

RECURSIVE SeqsUpTo(_, _)
SeqsUpTo(chars, n) ==
    IF n = 0
    THEN { <<>> }
    ELSE LET shorter == SeqsUpTo(chars, n - 1)
         IN  shorter \cup { Append(w, c) : w \in shorter, c \in chars }

Names == SeqsUpTo(NameChars, MaxNameLen)

\* The lines of vm-skip-list.txt: a, aa (no regex character), a? (a regex
\* character and no star), and *, a*, *?, a*a.  A line is stripped, not empty
\* and is one line.
SkipPatterns ==
    { <<"a">>, <<"a", "a">>, <<"a", "?">>, <<"*">>, <<"a", "*">>,
      <<"*", "?">>, <<"a", "*", "a">> }

\* The collector method is idle in this specification: nothing is collected.
CollectIdle ==
    /\ inventory = <<>>
    /\ skip_file = None
    /\ connected = FALSE
    /\ vm_skip_list = <<>>
    /\ seen_uuids = {}
    /\ duplicate_uuids = EmptyDict
    /\ pc = "idle"
    /\ max_count = None
    /\ vms_to_process = <<>>
    /\ i = 1
    /\ vm_data = EmptyVmData
    /\ calls = <<>>
    /\ run = "none"
    /\ prev_info = <<>>
    /\ start_seen = {}

SkipInit ==
    /\ \E n \in 0..MaxPatterns : \E f \in [ 1..n -> SkipPatterns ] :
          /\ sk_list = [ k \in 1..n |-> f[k] ]
          /\ sk_raising \in SUBSET { k \in 1..n : HasRegexChar(f[k]) }
    /\ sk_name \in Names
    /\ sk_out = None
    /\ CollectIdle
    /\ SampleIdle
    /\ PerfIdle
    /\ ConnFresh
    /\ MainIdle
    /\ OthersIdle
    /\ ViewIdle

\* vm_collector._should_skip_vm(vm)
CallShouldSkipVm ==
    /\ sk_out = None
    /\ sk_out' = Some(ShouldSkipVmCall(sk_name, sk_list, sk_raising))
    /\ UNCHANGED <<sk_list, sk_name, sk_raising>>
    /\ UNCHANGED beside_skip

SkipNext == CallShouldSkipVm

SkipSpec == SkipInit /\ [][SkipNext]_vars


\* The call has been made.
SkipCalled == sk_out # None

SkipOut == sk_out[1]

\* No pattern of the list has a regex character.
LiteralList == \A k \in 1..Len(sk_list) : ~HasRegexChar(sk_list[k])

\* Two strings are the same string: as long, and the same character (in the
\* same case) at every place.
SameString(a, b) ==
    /\ Len(a) = Len(b)
    /\ \A k \in 1..Len(a) : a[k] = b[k]

(***************************************************************************)
(* C11.  With a skip list none of whose patterns has one of the characters *)
(* * ? [ ] ( ) { } | ^ $ + \, _should_skip_vm returns True exactly when    *)
(* the name is, character for character, one of the patterns; with an      *)
(* empty list it returns False.                                            *)
(***************************************************************************)
C11_LiteralPatternsMatchExactly ==
    (SkipCalled /\ LiteralList) =>
        /\ ~SkipOut.raised
        /\ SkipOut.result
              <=> \E k \in 1..Len(sk_list) : SameString(sk_name, sk_list[k])
        /\ (sk_list = <<>> => ~SkipOut.result)

\* A name that has a literal pattern inside it, and is not that pattern, is
\* not skipped; the same list skips the name that is its second pattern.
C11_Witness ==
    /\ SkipCalled
    /\ sk_list = << <<"a">>, <<"a", "a">> >>
    /\ \/ sk_name = <<"a", "a">> /\ SkipOut.result
       \/ sk_name = <<"a", "a", "a">> /\ ~SkipOut.result

\* What the claim says a pattern with stars is: the pattern matches the whole
\* of s when each star stands for any run of characters, and every other
\* character for itself.
RECURSIVE StarMatches(_, _)
StarMatches(pattern, s) ==
    IF pattern = <<>>
    THEN s = <<>>
    ELSE IF Head(pattern) = "*"
         THEN \E k \in 0..Len(s) :
                 StarMatches(Tail(pattern), SubSeq(s, k + 1, Len(s)))
         ELSE /\ s # <<>>
              /\ Head(s) = Head(pattern)
              /\ StarMatches(Tail(pattern), Tail(s))

\* ... matches some substring of the name
StarMatchesSubstring(pattern, name) ==
    \E a \in 1..(Len(name) + 1) : \E b \in (a - 1)..Len(name) :
        StarMatches(pattern, SubSeq(name, a, b))

(***************************************************************************)
(* C12.  A pattern that has one of the characters * ? [ ] ( ) { } | ^ $ +  *)
(* \ skips a name exactly when the pattern, each * standing for any run of *)
(* characters (the empty one too) and every other character for itself,    *)
(* matches some substring of the name.  (re.search raises nothing here.)   *)
(***************************************************************************)
C12_StarIsAnySequence ==
    (SkipCalled /\ sk_raising = {}) =>
        \A k \in 1..Len(sk_list) :
            ( /\ HasRegexChar(sk_list[k])
              /\ \A j \in 1..Len(sk_list) : j # k => ~HasRegexChar(sk_list[j])
              /\ \A j \in 1..Len(sk_list) : j # k => sk_name # sk_list[j] )
            => ( SkipOut.result
                    <=> StarMatchesSubstring(sk_list[k], sk_name) )

(***************************************************************************)
(* C13.  When re.search raises re.error for a pattern, no exception leaves *)
(* _should_skip_vm: that pattern skips the name exactly when the pattern   *)
(* without its stars is a substring of the name, and the other patterns of *)
(* the list are tried as usual.                                            *)
(***************************************************************************)
C13_ReErrorFallsBackToSubstring ==
    SkipCalled =>
        /\ ~SkipOut.raised
        /\ SkipOut.result <=>
              \E k \in 1..Len(sk_list) :
                  IF k \in sk_raising
                  THEN Contains(sk_name, StripStars(sk_list[k]))
                  ELSE PatternSkips(sk_list[k], sk_name)

\* re.error for a pattern that would have matched (a.*a in a?a); the
\* fallback looks for aa, finds none, and the name is not skipped.
C13_Witness ==
    /\ SkipCalled
    /\ sk_list = << <<"a", "*", "a">> >>
    /\ sk_raising = {1}
    /\ sk_name = <<"a", "?", "a">>
    /\ ReSearch(sk_list[1], sk_name)
    /\ ~SkipOut.raised
    /\ ~SkipOut.result


(***************************************************************************)
(* PerformanceCollector._determine_sampling_parameters alone: one call,    *)
(* for any interval.  Python's // on a positive divisor is \div.           *)
(***************************************************************************)
\* Mutant: the upper bound of each tier is left to the next tier.
DetermineSamplingParameters_UpperOpen(mins) ==
    IF mins < 60
    THEN [ samples |-> (mins * 60) \div 20,
           interval_description |-> "20-second real-time", interval_id |-> 20 ]
    ELSE IF mins < 1440
    THEN [ samples |-> mins \div 5,
           interval_description |-> "5-minute short-term", interval_id |-> 300 ]
    ELSE IF mins < 10080
    THEN [ samples |-> mins \div 30,
           interval_description |-> "30-minute medium-term", interval_id |-> 1800 ]
    ELSE IF mins < 43200
    THEN [ samples |-> mins \div 120,
           interval_description |-> "2-hour long-term", interval_id |-> 7200 ]
    ELSE [ samples |-> mins \div 1440,
           interval_description |-> "1-day historical", interval_id |-> 86400 ]

\* Mutant: the real-time tier divides the minutes, not the seconds, by 20.
DetermineSamplingParameters_MinutesBy20(mins) ==
    IF mins <= 60
    THEN [ samples |-> mins \div 20,
           interval_description |-> "20-second real-time", interval_id |-> 20 ]
    ELSE IF mins <= 1440
    THEN [ samples |-> mins \div 5,
           interval_description |-> "5-minute short-term", interval_id |-> 300 ]
    ELSE IF mins <= 10080
    THEN [ samples |-> mins \div 30,
           interval_description |-> "30-minute medium-term", interval_id |-> 1800 ]
    ELSE IF mins <= 43200
    THEN [ samples |-> mins \div 120,
           interval_description |-> "2-hour long-term", interval_id |-> 7200 ]
    ELSE [ samples |-> mins \div 1440,
           interval_description |-> "1-day historical", interval_id |-> 86400 ]

\* Mutant: the medium-term and long-term tiers have changed places.
DetermineSamplingParameters_TiersSwapped(mins) ==
    IF mins <= 60
    THEN [ samples |-> (mins * 60) \div 20,
           interval_description |-> "20-second real-time", interval_id |-> 20 ]
    ELSE IF mins <= 1440
    THEN [ samples |-> mins \div 5,
           interval_description |-> "5-minute short-term", interval_id |-> 300 ]
    ELSE IF mins <= 10080
    THEN [ samples |-> mins \div 120,
           interval_description |-> "2-hour long-term", interval_id |-> 7200 ]
    ELSE IF mins <= 43200
    THEN [ samples |-> mins \div 30,
           interval_description |-> "30-minute medium-term", interval_id |-> 1800 ]
    ELSE [ samples |-> mins \div 1440,
           interval_description |-> "1-day historical", interval_id |-> 86400 ]

\* _determine_sampling_parameters(interval_mins): the tuple it returns
DetermineSamplingParameters(mins) ==
    IF mins <= 60
    THEN [ samples |-> (mins * 60) \div 20,
           interval_description |-> "20-second real-time", interval_id |-> 20 ]
    ELSE IF mins <= 1440
    THEN [ samples |-> mins \div 5,
           interval_description |-> "5-minute short-term", interval_id |-> 300 ]
    ELSE IF mins <= 10080
    THEN [ samples |-> mins \div 30,
           interval_description |-> "30-minute medium-term", interval_id |-> 1800 ]
    ELSE IF mins <= 43200
    THEN [ samples |-> mins \div 120,
           interval_description |-> "2-hour long-term", interval_id |-> 7200 ]
    ELSE [ samples |-> mins \div 1440,
           interval_description |-> "1-day historical", interval_id |-> 86400 ]

\* --perf-interval is any int; the intervals looked at are 0 and up.
SampleInit ==
    /\ interval_mins \in 0..MaxIntervalMins
    /\ sampling = None
    /\ CollectIdle
    /\ SkipIdle
    /\ PerfIdle
    /\ ConnFresh
    /\ MainIdle
    /\ OthersIdle
    /\ ViewIdle

\* performance_collector._determine_sampling_parameters(interval_mins)
CallDetermineSamplingParameters ==
    /\ sampling = None
    /\ sampling' = Some(DetermineSamplingParameters(interval_mins))
    /\ UNCHANGED interval_mins
    /\ UNCHANGED beside_sample

SampleNext == CallDetermineSamplingParameters

SampleSpec == SampleInit /\ [][SampleNext]_vars

\* The call has been made.
Sampled == sampling # None

Plan == sampling[1]

(***************************************************************************)
(* C14.  For every interval w >= 1 the call returns, the first row that    *)
(* applies winning: w <= 60: (floor(w*60/20), "20-second real-time", 20);  *)
(* w <= 1440: (floor(w/5), "5-minute short-term", 300); w <= 10080:        *)
(* (floor(w/30), "30-minute medium-term", 1800); w <= 43200:               *)
(* (floor(w/120), "2-hour long-term", 7200); above that (floor(w/1440),    *)
(* "1-day historical", 86400).  floor(w/d) is the q with q*d <= w <        *)
(* (q+1)*d.                                                                *)
(***************************************************************************)
C14_SamplingTable ==
    (Sampled /\ interval_mins >= 1) =>
        LET w == interval_mins
            IsFloor(q, n, d) == q * d <= n /\ n < (q + 1) * d
            TableRow(n, d, text, id) ==
                /\ IsFloor(Plan.samples, n, d)
                /\ Plan.interval_description = text
                /\ Plan.interval_id = id
        IN  /\ w <= 60 => TableRow(w * 60, 20, "20-second real-time", 20)
            /\ (60 < w /\ w <= 1440) => TableRow(w, 5, "5-minute short-term", 300)
            /\ (1440 < w /\ w <= 10080)
                  => TableRow(w, 30, "30-minute medium-term", 1800)
            /\ (10080 < w /\ w <= 43200)
                  => TableRow(w, 120, "2-hour long-term", 7200)
            /\ 43200 < w => TableRow(w, 1440, "1-day historical", 86400)

\* 60 minutes are sampled every 20 seconds, 61 minutes every 300.
C14_Witness ==
    /\ Sampled
    /\ \/ interval_mins = 60 /\ Plan.interval_id = 20 /\ Plan.samples = 180
       \/ interval_mins = 61 /\ Plan.interval_id = 300 /\ Plan.samples = 12


\* The five tiers, by the sampling period of each.
TierIds == { 20, 300, 1800, 7200, 86400 }

\* The call chose one tier: the period and the text are those of one tier.
OneTierChosen ==
    /\ Plan.interval_id \in TierIds
    /\ Plan.interval_description = "20-second real-time"
          <=> Plan.interval_id = 20
    /\ Plan.interval_description = "5-minute short-term"
          <=> Plan.interval_id = 300
    /\ Plan.interval_description = "30-minute medium-term"
          <=> Plan.interval_id = 1800
    /\ Plan.interval_description = "2-hour long-term"
          <=> Plan.interval_id = 7200
    /\ Plan.interval_description = "1-day historical"
          <=> Plan.interval_id = 86400

(***************************************************************************)
(* C15, as stated.  The call chooses one of the five tiers, and the range  *)
(* of each tier has its lower end and not its upper end: an interval of    *)
(* 60, 1440, 10080 or 43200 minutes is in the tier that begins there.      *)
(***************************************************************************)
C15_TiersLowerClosedUpperOpen ==
    Sampled =>
        LET w == interval_mins
        IN  /\ OneTierChosen
            /\ Plan.interval_id = 20 <=> w < 60
            /\ Plan.interval_id = 300 <=> (60 <= w /\ w < 1440)
            /\ Plan.interval_id = 1800 <=> (1440 <= w /\ w < 10080)
            /\ Plan.interval_id = 7200 <=> (10080 <= w /\ w < 43200)
            /\ Plan.interval_id = 86400 <=> 43200 <= w

(***************************************************************************)
(* C15, amended.  The call chooses one of the five tiers, and the range of *)
(* each tier has its upper end and not its lower end: an interval of 60,   *)
(* 1440, 10080 or 43200 minutes is in the tier that ends there.            *)
(***************************************************************************)
C15_TiersLowerOpenUpperClosed ==
    Sampled =>
        LET w == interval_mins
        IN  /\ OneTierChosen
            /\ Plan.interval_id = 20 <=> w <= 60
            /\ Plan.interval_id = 300 <=> (60 < w /\ w <= 1440)
            /\ Plan.interval_id = 1800 <=> (1440 < w /\ w <= 10080)
            /\ Plan.interval_id = 7200 <=> (10080 < w /\ w <= 43200)
            /\ Plan.interval_id = 86400 <=> 43200 < w

\* A day is sampled every 5 minutes, or a week every 30, or 30 days every 2
\* hours.
C15_Witness ==
    /\ Sampled
    /\ \/ interval_mins = 1440 /\ Plan.interval_id = 300
       \/ interval_mins = 10080 /\ Plan.interval_id = 1800
       \/ interval_mins = 43200 /\ Plan.interval_id = 7200

(***************************************************************************)
(* C16.  For every interval of 1 minute or more, the first one of each     *)
(* tier (1, 61, 1441, 10081, 43201) too, the number of samples returned is *)
(* a positive integer.                                                     *)
(***************************************************************************)
C16_SamplesPositive ==
    (Sampled /\ interval_mins >= 1) =>
        /\ Plan.samples \in Nat
        /\ Plan.samples > 0

\* The first interval of a tier has been asked for.
C16_Witness ==
    /\ Sampled
    /\ interval_mins \in { 1, 61, 1441, 10081, 43201 }
    /\ Plan.samples > 0


(***************************************************************************)
(* PerformanceCollector.get_available_metrics and _initialize_counters on  *)
(* one collector.  The collector is the record of its three fields and of  *)
(* what it has asked of perfManager.  An entity is known by its id, the    *)
(* name of its class and the counter ids that the server says are          *)
(* available for it.  What the server does is an input: raising holds the  *)
(* names of the server calls that raise when they are made, and every      *)
(* other call is answered.  No method of the collector catches an          *)
(* exception: it leaves the method in which the server call was made, and  *)
(* the methods that called it.                                             *)
(***************************************************************************)
\* perf_manager.perfCounter: the counters, by key
PerfCounterTable ==
    (1 :> [ group |-> "cpu", name |-> "usage", rollupType |-> "average" ])
    @@ (2 :> [ group |-> "mem", name |-> "usage", rollupType |-> "average" ])
    @@ (3 :> [ group |-> "virtualDisk", name |-> "readIOSize",
               rollupType |-> "latest" ])

\* Two virtual machines with different counters, one of them with a counter
\* that the table does not have; a host; a datastore with no counter.
MetricEntities ==
    { [ id |-> 1, type |-> "VirtualMachine", counter_ids |-> << 1, 2 >> ],
      [ id |-> 2, type |-> "VirtualMachine", counter_ids |-> << 2, 3, 9 >> ],
      [ id |-> 3, type |-> "HostSystem", counter_ids |-> << 1 >> ],
      [ id |-> 4, type |-> "Datastore", counter_ids |-> << >> ] }

PerfCollector ==
    [ metric_cache |-> metric_cache,
      counters_initialized |-> counters_initialized,
      perf_counters |-> perf_counters,
      perf_manager_log |-> perf_manager_log ]

\* What is asked of perfManager: the property perfCounter (entity 0), or
\* QueryAvailablePerfMetric for an entity; answered says that the server
\* answered, and not that the call raised.
PerfManagerCall(fn, entity_id, answered) ==
    [ fn |-> fn, entity |-> entity_id, answered |-> answered ]

\* Mutant: the flag is never set.
InitializeCounters_FlagNotSet(c, raising) ==
    IF c.counters_initialized
    THEN [ coll |-> c, raised |-> FALSE ]
    ELSE IF "perfCounter" \in raising
    THEN [ coll |-> [ c EXCEPT !.perf_manager_log =
                          Append(@, PerfManagerCall("perfCounter", 0, FALSE)) ],
           raised |-> TRUE ]
    ELSE [ coll |-> [ c EXCEPT !.perf_counters = PerfCounterTable,
                               !.perf_manager_log =
                                   Append(@, PerfManagerCall("perfCounter", 0, TRUE)) ],
           raised |-> FALSE ]

\* _initialize_counters(): the collector after the call and whether an
\* exception left it.  When the read of perfCounter raises, perf_counters is
\* not assigned and the flag is not set.
InitializeCounters(c, raising) ==
    IF c.counters_initialized
    THEN [ coll |-> c, raised |-> FALSE ]
    ELSE IF "perfCounter" \in raising
    THEN [ coll |-> [ c EXCEPT !.perf_manager_log =
                          Append(@, PerfManagerCall("perfCounter", 0, FALSE)) ],
           raised |-> TRUE ]
    ELSE [ coll |-> [ c EXCEPT !.perf_counters = PerfCounterTable,
                               !.counters_initialized = TRUE,
                               !.perf_manager_log =
                                   Append(@, PerfManagerCall("perfCounter", 0, TRUE)) ],
           raised |-> FALSE ]

\* f"{counter.groupInfo.key}.{counter.nameInfo.key}.{counter.rollupType}"
MetricName(counter) ==
    counter.group \o "." \o counter.name \o "." \o counter.rollupType

\* d[key] = value
DictSet(d, key, value) ==
    [ k \in DOMAIN d \cup { key } |-> IF k = key THEN value ELSE d[k] ]

\* The loop over counter_ids: a counter id that the table has is entered
\* under the name of its counter, any other is passed over.
RECURSIVE MapCounters(_, _, _)
MapCounters(counter_ids, counters, available_metrics) ==
    IF counter_ids = <<>>
    THEN available_metrics
    ELSE LET id == Head(counter_ids)
         IN  MapCounters(Tail(counter_ids), counters,
                         IF id \in DOMAIN counters
                         THEN DictSet(available_metrics,
                                      MetricName(counters[id]), id)
                         ELSE available_metrics)

\* Mutant: the metrics found are returned and not put in the cache.
GetAvailableMetrics_NotCached(c0, entity, raising) ==
    LET init == InitializeCounters(c0, raising)
        c == init.coll
        asked(answered) ==
            [ c EXCEPT !.perf_manager_log =
                  Append(@, PerfManagerCall("QueryAvailablePerfMetric",
                                            entity.id, answered)) ]
        available_metrics ==
            MapCounters(entity.counter_ids, c.perf_counters, EmptyDict)
    IN  IF init.raised
        THEN [ coll |-> c, returned |-> None, raised |-> TRUE ]
        ELSE IF entity.type \in DOMAIN c.metric_cache
        THEN [ coll |-> c, returned |-> Some(c.metric_cache[entity.type]),
               raised |-> FALSE ]
        ELSE IF "QueryAvailablePerfMetric" \in raising
        THEN [ coll |-> asked(FALSE), returned |-> None, raised |-> TRUE ]
        ELSE [ coll |-> asked(TRUE),
               returned |-> Some(available_metrics), raised |-> FALSE ]

\* Mutant: an empty cache entry counts as none (the entry is tested for
\* truth, not for being there).
GetAvailableMetrics_TruthTest(c0, entity, raising) ==
    LET init == InitializeCounters(c0, raising)
        c == init.coll
        asked(answered) ==
            [ c EXCEPT !.perf_manager_log =
                  Append(@, PerfManagerCall("QueryAvailablePerfMetric",
                                            entity.id, answered)) ]
        available_metrics ==
            MapCounters(entity.counter_ids, c.perf_counters, EmptyDict)
    IN  IF init.raised
        THEN [ coll |-> c, returned |-> None, raised |-> TRUE ]
        ELSE IF DictGet(c.metric_cache, entity.type, EmptyDict) # EmptyDict
        THEN [ coll |-> c, returned |-> Some(c.metric_cache[entity.type]),
               raised |-> FALSE ]
        ELSE IF "QueryAvailablePerfMetric" \in raising
        THEN [ coll |-> asked(FALSE), returned |-> None, raised |-> TRUE ]
        ELSE [ coll |-> [ asked(TRUE) EXCEPT
                            !.metric_cache =
                                DictSet(@, entity.type, available_metrics) ],
               returned |-> Some(available_metrics), raised |-> FALSE ]

\* get_available_metrics(entity): the collector after the call, what was
\* returned (None when nothing was) and whether an exception left the call.
\* When QueryAvailablePerfMetric raises, nothing is put in the cache.
GetAvailableMetrics(c0, entity, raising) ==
    LET init == InitializeCounters(c0, raising)
        c == init.coll
        asked(answered) ==
            [ c EXCEPT !.perf_manager_log =
                  Append(@, PerfManagerCall("QueryAvailablePerfMetric",
                                            entity.id, answered)) ]
        available_metrics ==
            MapCounters(entity.counter_ids, c.perf_counters, EmptyDict)
    IN  IF init.raised
        THEN [ coll |-> c, returned |-> None, raised |-> TRUE ]
        ELSE IF entity.type \in DOMAIN c.metric_cache
        THEN [ coll |-> c, returned |-> Some(c.metric_cache[entity.type]),
               raised |-> FALSE ]
        ELSE IF "QueryAvailablePerfMetric" \in raising
        THEN [ coll |-> asked(FALSE), returned |-> None, raised |-> TRUE ]
        ELSE [ coll |-> [ asked(TRUE) EXCEPT
                            !.metric_cache =
                                DictSet(@, entity.type, available_metrics) ],
               returned |-> Some(available_metrics), raised |-> FALSE ]

\* The fields of the collector become those of c.
PerfCollectorBecomes(c) ==
    /\ metric_cache' = c.metric_cache
    /\ counters_initialized' = c.counters_initialized
    /\ perf_counters' = c.perf_counters
    /\ perf_manager_log' = c.perf_manager_log

(***************************************************************************)
(* PerformanceCollector.get_performance_properties.  A call of             *)
(* collect_detailed_vm_metrics is named by the VM and the sampling it is   *)
(* given; what vCenter answers is left out of the row, which keeps the     *)
(* name and the UUID.                                                      *)
(***************************************************************************)
\* batch_size = 10
BatchSize == 10

\* Mutant: every VM that is not powered off.
PoweredOnVms_NotPoweredOff(all_vms) ==
    SelectSeq(all_vms, LAMBDA vm : vm.powerState # "poweredOff")

\* [vm for vm in all_vms if vm.runtime.powerState == 'poweredOn']
PoweredOnVms(all_vms) ==
    SelectSeq(all_vms, LAMBDA vm : vm.powerState = "poweredOn")

\* Mutant: the slice of a batch ends one VM early.
Batch_OneShort(powered_on_vms, b) ==
    SubSeq(powered_on_vms, b + 1,
           IF b + BatchSize - 1 < Len(powered_on_vms)
           THEN b + BatchSize - 1 ELSE Len(powered_on_vms))

\* powered_on_vms[b:b+batch_size], b counted from 0
Batch(powered_on_vms, b) ==
    SubSeq(powered_on_vms, b + 1,
           IF b + BatchSize < Len(powered_on_vms)
           THEN b + BatchSize ELSE Len(powered_on_vms))

\* collect_detailed_vm_metrics(vm, interval_mins, samples, interval_id)
MetricsCall(vm, mins, plan) ==
    [ vm |-> vm.moId, interval_mins |-> mins, samples |-> plan.samples,
      interval_id |-> plan.interval_id ]

\* The row of a VM: 'VM Name' and 'VM UUID'
PerformanceMetric(vm) == [ VMName |-> vm.name, VMUUID |-> vm.uuid ]

\* The loop over the batches, from the batch that begins at b.
RECURSIVE PerfBatches(_, _, _, _, _)
PerfBatches(powered_on_vms, b, mins, plan, st) ==
    IF b >= Len(powered_on_vms)
    THEN st
    ELSE LET batch == Batch(powered_on_vms, b)
             after ==
                 [ queries |-> st.queries \o
                       [ k \in 1..Len(batch) |-> MetricsCall(batch[k], mins, plan) ],
                   rows |-> st.rows \o
                       [ k \in 1..Len(batch) |-> PerformanceMetric(batch[k]) ] ]
         IN  PerfBatches(powered_on_vms, b + BatchSize, mins, plan, after)

\* get_performance_properties(content, container, interval_mins): the calls
\* of collect_detailed_vm_metrics it makes and the list it returns.
GetPerformanceProperties(all_vms, mins) ==
    PerfBatches(PoweredOnVms(all_vms), 0, mins,
                DetermineSamplingParameters(mins),
                [ queries |-> <<>>, rows |-> <<>> ])

\* A VM as get_available_metrics is given it: the server says that the
\* counters 1 and 2 (cpu.usage.average and mem.usage.average) are available
\* for a virtual machine.
VmEntity(vm) ==
    [ id |-> vm.moId, type |-> "VirtualMachine", counter_ids |-> << 1, 2 >> ]

\* The four metrics that collect_detailed_vm_metrics wants
DesiredMetrics ==
    { "cpu.usage.average", "mem.usage.average",
      "virtualDisk.readIOSize.latest", "virtualDisk.writeIOSize.latest" }

\* collect_detailed_vm_metrics(vm, ...): the collector after the call and
\* whether an exception left it.  get_available_metrics is called, and then,
\* if a metric that is wanted is available, get_metric_values, which calls
\* _initialize_counters and then QueryPerf.
CollectDetailedVmMetrics(c, vm, raising) ==
    LET r == GetAvailableMetrics(c, VmEntity(vm), raising)
        metric_ids == { r.returned[1][m] :
                          m \in DesiredMetrics \cap DOMAIN r.returned[1] }
        init == InitializeCounters(r.coll, raising)
    IN  IF r.raised THEN [ coll |-> r.coll, raised |-> TRUE ]
        ELSE IF metric_ids = {} THEN [ coll |-> r.coll, raised |-> FALSE ]
        ELSE [ coll |-> init.coll,
               raised |-> init.raised \/ "QueryPerf" \in raising ]

\* The collector after the calls of collect_detailed_vm_metrics for vms, in
\* order, and whether an exception left one of them, which ends the loop.
\* The server calls named in raising raise when they are made for the k-th
\* of vms.
RECURSIVE CollectorAfterVms(_, _, _, _)
CollectorAfterVms(vms, c, k, raising) ==
    IF vms = <<>> THEN [ coll |-> c, raised |-> FALSE ]
    ELSE LET r == CollectDetailedVmMetrics(c, Head(vms),
                                           IF k = 1 THEN raising ELSE {})
         IN  IF r.raised THEN r
             ELSE CollectorAfterVms(Tail(vms), r.coll, k - 1, raising)

\* get_performance_properties(content, container, interval_mins): the
\* collector after it, which was asked for the powered-on VMs batch by batch
PerfCollectorAfter(all_vms, c, k, raising) ==
    CollectorAfterVms(PoweredOnVms(all_vms), c, k, raising)

\* --perf-interval: the default and four hours
PerfIntervals == { 60, 240 }

\* The inventory of the performance pass: VM k is named p<k>, has UUID u<k>,
\* and any power state.
PerfVM(k, power) ==
    [ moId |-> k, name |-> <<"p", ToString(k)>>, powerState |-> power,
      guestState |-> "running", ipAddress |-> "10.0.0.1",
      uuid |-> "u" \o ToString(k) ]

\* The state after connect() on a new orchestrator.
PerfInit ==
    /\ \E n \in 0..MaxPerfVMs :
          \E off \in { o \in SUBSET (1..n) : Cardinality(o) <= MaxNotPoweredOn } :
             \E f \in [ off -> PowerStates \ { "poweredOn" } ] :
                inventory = [ k \in 1..n |->
                                PerfVM(k, IF k \in off THEN f[k] ELSE "poweredOn") ]
    /\ skip_file = None
    /\ connected = TRUE
    /\ vm_skip_list = <<>>
    /\ seen_uuids = {}
    /\ duplicate_uuids = EmptyDict
    /\ pc = "idle"
    /\ max_count = None
    /\ vms_to_process = <<>>
    /\ i = 1
    /\ vm_data = EmptyVmData
    /\ calls = <<>>
    /\ run = "none"
    /\ prev_info = <<>>
    /\ start_seen = {}
    /\ perf_interval \in PerfIntervals
    /\ perf_out = None
    /\ export_pc = "idle"
    /\ export_statistics = TRUE
    /\ export_max_count = None
    /\ all_data = None
    /\ SkipIdle
    /\ SampleIdle
    /\ ConnOpened
    /\ MainIdle
    /\ OthersIdle
    /\ ViewIdle

\* performance_collector.get_performance_properties(content, container,
\* interval_mins)
CallGetPerformanceProperties ==
    /\ connected
    /\ perf_out = None
    /\ perf_out' = Some(GetPerformanceProperties(inventory, perf_interval))
    /\ PerfCollectorBecomes(PerfCollectorAfter(inventory, PerfCollector,
                                                0, {}).coll)
    /\ UNCHANGED <<perf_interval, export_pc, export_statistics,
                   export_max_count, all_data>>
    /\ UNCHANGED collect_vars
    /\ UNCHANGED beside_perf_pass

PerfNext == CallGetPerformanceProperties

PerfSpec == PerfInit /\ [][PerfNext]_vars

\* The performance pass is over.
PerfReturned == perf_out # None

PerfQueries == perf_out[1].queries

PerfRows == perf_out[1].rows

\* The VMs of the inventory that are powered on, in inventory order.
PoweredOnInInventory ==
    SelectSeq(inventory, LAMBDA vm : vm.powerState = "poweredOn")

\* How many calls of collect_detailed_vm_metrics were for vm.
QueriesFor(vm) ==
    Cardinality({ q \in 1..Len(PerfQueries) : PerfQueries[q].vm = vm.moId })

(***************************************************************************)
(* C18.  get_performance_properties calls collect_detailed_vm_metrics for  *)
(* the powered-on VMs and no other, once each and in inventory order, and  *)
(* returns one row for each of them, in that order.                        *)
(***************************************************************************)
C18_PoweredOnQueriedOnceInOrder ==
    PerfReturned =>
        /\ Len(PerfQueries) = Len(PoweredOnInInventory)
        /\ \A k \in 1..Len(PerfQueries) :
              PerfQueries[k].vm = PoweredOnInInventory[k].moId
        /\ \A k \in 1..Len(inventory) :
              QueriesFor(inventory[k])
                  = IF inventory[k].powerState = "poweredOn" THEN 1 ELSE 0
        /\ Len(PerfRows) = Len(PoweredOnInInventory)
        /\ \A k \in 1..Len(PerfRows) :
              /\ PerfRows[k].VMName = PoweredOnInInventory[k].name
              /\ PerfRows[k].VMUUID = PoweredOnInInventory[k].uuid

\* More powered-on VMs than one batch holds, and a VM in each of the other
\* power states among them.
C18_Witness ==
    /\ PerfReturned
    /\ Len(PerfQueries) > BatchSize
    /\ \E k \in 1..Len(inventory) : inventory[k].powerState = "poweredOff"
    /\ \E k \in 1..Len(inventory) : inventory[k].powerState = "suspended"


(***************************************************************************)
(* VCenterOrchestrator.collect_all_data: the performance metrics first,    *)
(* over the whole inventory, then collect_vm_data.  The host and network   *)
(* collectors it calls before them touch nothing of this model.            *)
(***************************************************************************)
\* collect_all_data(max_count, export_statistics, perf_interval) down to the
\* performance metrics
CollectAllDataPerformance ==
    /\ connected
    /\ export_pc = "idle"
    /\ pc = "idle"
    /\ \E mc \in MaxCounts, stats \in BOOLEAN, mins \in PerfIntervals :
          /\ export_max_count' = mc
          /\ export_statistics' = stats
          /\ perf_interval' = mins
          /\ perf_out' = IF stats
                         THEN Some(GetPerformanceProperties(inventory, mins))
                         ELSE Some([ queries |-> <<>>, rows |-> <<>> ])
          /\ PerfCollectorBecomes(IF stats
                                  THEN PerfCollectorAfter(inventory, PerfCollector,
                                                          0, {}).coll
                                  ELSE PerfCollector)
    /\ export_pc' = "vm_data"
    /\ UNCHANGED all_data
    /\ UNCHANGED collect_vars
    /\ UNCHANGED beside_perf_pass

\* vm_data = self.collect_vm_data(max_count), up to its loop
CollectAllDataVmData ==
    /\ export_pc = "vm_data"
    /\ pc = "idle"
    /\ Enter(export_max_count, "first")

\* all_data is put together and returned
CollectAllDataReturn ==
    /\ export_pc = "vm_data"
    /\ pc = "done"
    /\ all_data' = Some([ performance |-> perf_out[1].rows,
                          vm_info |-> vm_data.vm_info,
                          vm_network |-> vm_data.vm_network,
                          vm_cpu |-> vm_data.vm_cpu,
                          vm_memory |-> vm_data.vm_memory,
                          vm_disk |-> vm_data.vm_disk,
                          vm_partition |-> vm_data.vm_partition,
                          vm_tools |-> vm_data.vm_tools ])
    /\ export_pc' = "done"
    /\ UNCHANGED <<perf_interval, perf_out, export_statistics,
                   export_max_count>>
    /\ UNCHANGED collect_vars
    /\ UNCHANGED beside_all_data

ExportNext ==
    \/ Connect
    \/ CollectAllDataPerformance
    \/ CollectAllDataVmData
    \/ ProcessVM
    \/ FinishCollect
    \/ CollectAllDataReturn

ExportSpec == Init /\ [][ExportNext]_vars

\* vm has a row in the vm_info that collect_all_data returned.
InExportedInfo(vm) ==
    \E r \in 1..Len(all_data[1].vm_info) :
        all_data[1].vm_info[r].VmId = vm.moId

(***************************************************************************)
(* C17.  After collect_all_data with statistics, every VM that has a row   *)
(* in vm_info has had its performance metrics asked for exactly once, and  *)
(* no VM more than once.                                                   *)
(***************************************************************************)
C17_EverySurvivorQueriedOnce ==
    (export_pc = "done" /\ export_statistics) =>
        \A k \in 1..Len(inventory) :
            /\ InExportedInfo(inventory[k]) => QueriesFor(inventory[k]) = 1
            /\ QueriesFor(inventory[k]) <= 1


\* connection.connect()
CallConnect ==
    /\ Len(conn_ops) < MaxConnCalls
    /\ \E outcome \in ConnectOutcomes :
          LET r == ConnectionConnect(Connection, outcome)
          IN  /\ ConnectionBecomes(r.conn)
              /\ conn_ops' = Append(conn_ops, ConnOp("connect", r))
    /\ UNCHANGED beside_conn

\* connection.disconnect()
CallDisconnect ==
    /\ Len(conn_ops) < MaxConnCalls
    /\ \E sdk_raises \in BOOLEAN :
          LET r == ConnectionDisconnect(Connection, sdk_raises)
          IN  /\ ConnectionBecomes(r.conn)
              /\ conn_ops' = Append(conn_ops, ConnOp("disconnect", r))
    /\ UNCHANGED beside_conn

ConnInit ==
    /\ ConnFresh
    /\ CollectIdle
    /\ SkipIdle
    /\ SampleIdle
    /\ PerfIdle
    /\ MainIdle
    /\ OthersIdle
    /\ ViewIdle

ConnNext == CallConnect \/ CallDisconnect

ConnSpec == ConnInit /\ [][ConnNext]_vars

\* This step is a call of disconnect().
DisconnectStep ==
    /\ Len(conn_ops') = Len(conn_ops) + 1
    /\ conn_ops'[Len(conn_ops')].op = "disconnect"

\* ... and the call returned (connect.Disconnect did not raise).
DisconnectReturned == ~conn_ops'[Len(conn_ops')].raised

\* The calls of connect.Disconnect made so far.
DisconnectsIn(log) == { k \in 1..Len(log) : log[k].fn = "Disconnect" }

(***************************************************************************)
(* C20.  disconnect() calls connect.Disconnect exactly when                *)
(* service_instance is set, and once; when it returns, service_instance,   *)
(* content and container are None.  So a disconnect() with no              *)
(* service_instance, a second one in a row among them, makes no SDK call   *)
(* and changes nothing.                                                    *)
(***************************************************************************)
C20_DisconnectOnlyWhenConnected ==
    [][ DisconnectStep =>
          /\ service_instance # None =>
                sdk_log' = Append(sdk_log,
                                  SdkCall("Disconnect", service_instance[1]))
          /\ service_instance = None =>
                /\ sdk_log' = sdk_log
                /\ UNCHANGED <<service_instance, content, container>>
                /\ DisconnectReturned
          /\ DisconnectReturned =>
                /\ service_instance' = None
                /\ content' = None
                /\ container' = None ]_vars

\* connect(), disconnect() and disconnect() again: one call of
\* connect.Disconnect, for the session that was opened.
C20_Witness ==
    /\ Len(conn_ops) = 3
    /\ conn_ops[1].op = "connect" /\ conn_ops[1].returned # None
    /\ conn_ops[2].op = "disconnect" /\ ~conn_ops[2].raised
    /\ conn_ops[3].op = "disconnect" /\ ~conn_ops[3].raised
    /\ Cardinality(DisconnectsIn(sdk_log)) = 1
    /\ service_instance = None /\ content = None /\ container = None


(***************************************************************************)
(* main() of vcexport_modular.py, from the orchestrator it creates on.     *)
(* orchestrator.connect() and orchestrator.export_data(...) are one step   *)
(* each, with everything they do up to the point where they return or an   *)
(* exception or a KeyboardInterrupt leaves them; sys.exit raises           *)
(* SystemExit, which no except clause of main() catches.                   *)
(***************************************************************************)
\* main(): the most VMs in the inventory
MaxMainVMs == 2

\* The VMs of main()'s inventory: t1, which the skip file names; p1 powered
\* off; p1 and p2 powered on with an address and the UUID u1, so that the
\* second of two of them is a duplicate.
MainShapes ==
    { s \in VMShapes : /\ s.ipAddress = "10.0.0.1"
                       /\ s.uuid = "u1"
                       /\ s.guestState = "running"
                       /\ s.powerState # "suspended" }

\* The command line: --max-count, --keep-csv, --no-statistics,
\* --perf-interval.
MainArgs ==
    [ max_count : MaxCounts, purge_csv : BOOLEAN,
      export_statistics : BOOLEAN, perf_interval : PerfIntervals ]

\* How orchestrator.connect() can go.  connection.connect() returns the
\* session ("returns" and the four after it) or None (for the three reasons
\* of ConnectOutcomes), or a KeyboardInterrupt, which its except clauses do
\* not catch, leaves it during SmartConnect or during RetrieveContent.  With
\* the session, VMCollector(...) raises or is interrupted while it builds its
\* switch mapping, or PerformanceCollector(...) is while it retrieves the
\* content, or all the collectors are made.
ConnectRuns ==
    { "returns", "invalid_login", "connect_error", "content_error",
      "vm_collector_raises", "performance_collector_raises",
      "interrupt_smart_connect", "interrupt_retrieve_content",
      "interrupt_vm_collector", "interrupt_performance_collector" }

\* connection.connect() in the run how: the connection after it, what it
\* returned and whether something was raised out of it.  An interrupted
\* SmartConnect is logged with session 0, as one that raised.
ConnectionConnectRun(c, how) ==
    IF how = "interrupt_smart_connect"
    THEN [ ConnectionConnect(c, "connect_error") EXCEPT !.raised = TRUE ]
    ELSE IF how = "interrupt_retrieve_content"
    THEN [ ConnectionConnect(c, "content_error") EXCEPT !.raised = TRUE ]
    ELSE IF how \in { "invalid_login", "connect_error", "content_error" }
    THEN ConnectionConnect(c, how)
    ELSE ConnectionConnect(c, "ok")

\* orchestrator.connect() in the run how: connection.connect(), then, with a
\* session, the collectors.  vm_collector says that orchestrator.vm_collector
\* has been set, path how the try block of main() goes on.
OrchestratorConnectRun(c, how) ==
    LET r == ConnectionConnectRun(c, how)
        retrieved == [ r.conn EXCEPT !.sdk_log =
                         Append(@, SdkCall("RetrieveContent",
                                           r.conn.service_instance[1])) ]
        before_vm == how \in { "vm_collector_raises", "interrupt_vm_collector" }
        interrupted == how \in { "interrupt_smart_connect",
                                 "interrupt_retrieve_content",
                                 "interrupt_vm_collector",
                                 "interrupt_performance_collector" }
    IN  [ conn |-> IF r.returned = None \/ before_vm THEN r.conn ELSE retrieved,
          op |-> ConnOp("connect", r),
          vm_collector |-> r.returned # None /\ ~before_vm,
          path |-> IF interrupted THEN "interrupt"
                   ELSE IF r.returned = None THEN "connect_false"
                   ELSE IF how = "returns" THEN "connected"
                   ELSE "exception" ]

\* self.vm_collector = VMCollector(...), when it is made: the skip list is
\* loaded and the ledger is empty.
VmCollectorBecomes(made) ==
    IF made
    THEN /\ connected' = TRUE
         /\ vm_skip_list' = LoadVmSkipList(skip_file)
         /\ seen_uuids' = {}
         /\ duplicate_uuids' = EmptyDict
    ELSE UNCHANGED collector_vars

\* get_default_filenames(), in the order in which export_all_data writes
\* the files
DefaultFilenames ==
    << "RVTools_tabvInfo.csv", "RVTools_tabvNetwork.csv",
       "RVTools_tabvCPU.csv", "RVTools_tabvMemory.csv",
       "RVTools_tabvDisk.csv", "RVTools_tabvPartition.csv",
       "RVTools_tabvSource.csv", "RVTools_tabvTools.csv",
       "RVTools_tabvHost.csv", "RVTools_tabvNIC.csv",
       "RVTools_tabvSC_VMK.csv", "RVTools_tabvSwitch.csv",
       "RVTools_tabdvSwitch.csv", "RVTools_tabvPort.csv",
       "RVTools_tabdvPort.csv", "vcexport_tabvPerformance.csv" >>

\* The loop of collect_vm_data over vms, from the state st, no call raising
RECURSIVE CollectLoop(_, _)
CollectLoop(vms, st) ==
    IF vms = <<>> THEN st
    ELSE CollectLoop(Tail(vms), LoopBody(Head(vms), st))

\* How export_data(a) can go, from the state main() is in.  A run says where
\* export_data ends (ends), how (kind: it returns, or an exception or a
\* KeyboardInterrupt leaves it), and what the server and the file system do:
\*   "source"       the first call that collect_all_data makes of the server
\*                  raises;
\*   "performance"  the server call named in raising raises in
\*                  collect_detailed_vm_metrics for the at-th powered-on VM,
\*                  which nothing catches;
\*   "view"         CreateContainerView raises in collect_vm_data;
\*   "list"         list(container_view.view) raises, in the try statement;
\*   "loop"         the call-th collector call of the iteration over the
\*                  at-th VM raises;
\*   "summary"      print_duplicate_uuids_summary raises;
\*   "csv"          the user interrupts the at-th write of export_all_data
\*                  (the first, the seventh, which is write_source_csv, or
\*                  the last);
\*   "zip"          the user interrupts create_zip_archive in its with block;
\*   "returned"     export_data returns what create_zip_archive returns: the
\*                  name of the archive (zip "zipped"), or None because
\*                  zipfile.ZipFile raised ("zip_raises") or because
\*                  os.remove raised for the second file to purge
\*                  ("remove_raises").
\* csv.fails are the files whose write raises an exception, which
\* write_csv_file catches, returning False; csv.left those of them that the
\* write had created, and the file of an interrupted write if it had.
ExportRuns(a) ==
    LET vms == Limit(inventory, a.max_count)
        start == [ skip |-> vm_skip_list, seen |-> seen_uuids,
                   dups |-> duplicate_uuids, data |-> EmptyVmData,
                   calls |-> <<>> ]
        before(j) == CollectLoop(SubSeq(vms, 1, j - 1), start)
        iteration_calls(j) ==
            Len(LoopBody(vms[j], before(j)).calls) - Len(before(j).calls)
        info == DefaultFilenames[1]
        perf == DefaultFilenames[Len(DefaultFilenames)]
        no_csv == [ fails |-> {}, left |-> {} ]
        csv_runs == { no_csv,
                      [ fails |-> { info }, left |-> {} ],
                      [ fails |-> { info }, left |-> { info } ],
                      [ fails |-> { info, perf }, left |-> { perf } ] }
        kinds == { "exception", "interrupt" }
        export_run(ends, kind, at, call, raising, csv, zip) ==
            [ ends |-> ends, kind |-> kind, at |-> at, call |-> call,
              raising |-> raising, csv |-> csv, zip |-> zip ]
    IN  { export_run(ends, kind, 0, 0, {}, no_csv, "none") :
            ends \in { "source", "view", "list", "summary" }, kind \in kinds }
        \cup
        { r \in { export_run("performance", kind, at, 0, { call }, no_csv, "none") :
                    kind \in kinds,
                    at \in 1..Len(PoweredOnVms(inventory)),
                    call \in { "perfCounter", "QueryAvailablePerfMetric",
                               "QueryPerf" } } :
            /\ a.export_statistics
            /\ PerfCollectorAfter(inventory, PerfCollector,
                                  r.at, r.raising).raised }
        \cup
        { r \in { export_run("loop", kind, at, call, {}, no_csv, "none") :
                    kind \in kinds, at \in 1..Len(vms), call \in 1..9 } :
            r.call <= iteration_calls(r.at) }
        \cup
        { export_run("csv", "interrupt", at, 0, {}, csv, "none") :
            at \in { 1, 7, Len(DefaultFilenames) }, csv \in csv_runs }
        \cup
        { export_run("zip", "interrupt", 0, 0, {}, csv, "none") : csv \in csv_runs }
        \cup
        { r \in { export_run("returned", "returns", 0, 0, {}, csv, zip) :
                    csv \in csv_runs,
                    zip \in { "zipped", "zip_raises", "remove_raises" } } :
            r.zip = "remove_raises" => a.purge_csv }

\* export_all_data(all_data, ...) of which written writes have ended:
\* csv_files after it.  A write that fails does not track its file.
TrackedAfterExport(tracked, csv, written) ==
    tracked \o SelectSeq(SubSeq(DefaultFilenames, 1, written),
                         LAMBDA file : file \notin csv.fails)

\* The files that exist after export_all_data, of which written writes have
\* ended and attempted have begun, and after create_zip_archive(purge_csv=
\* purge) if it was called and came to its purge (zip is "zipped" or
\* "remove_raises"): tracked_after is csv_files.  The purge removes the
\* tracked files that exist, in order, and ends with the os.remove that
\* raises.
FilesAfterExport(on_disk, tracked_after, csv, written, attempted, zip, purge) ==
    LET created == { DefaultFilenames[k] : k \in 1..written } \ csv.fails
        left == { DefaultFilenames[k] : k \in 1..attempted } \cap csv.left
        after_csv == on_disk \cup created \cup left
        to_purge == SelectSeq(tracked_after, LAMBDA file : file \in after_csv)
    IN  IF purge /\ zip = "zipped"
        THEN after_csv \ { to_purge[k] : k \in 1..Len(to_purge) }
        ELSE IF purge /\ zip = "remove_raises"
        THEN after_csv \ { to_purge[1] }
        ELSE after_csv

\* export_data(max_count, purge_csv, export_statistics, perf_interval) in
\* the run r, as far as r goes: collect_all_data (the performance pass over
\* the whole inventory if statistics are asked for, then collect_vm_data,
\* which creates a container view and destroys it in its finally clause),
\* export_all_data, create_zip_archive.
ExportData(a, r) ==
    LET vms == Limit(inventory, a.max_count)
        start == [ skip |-> vm_skip_list, seen |-> seen_uuids,
                   dups |-> duplicate_uuids, data |-> EmptyVmData,
                   calls |-> <<>> ]
        view_made == r.ends \notin { "source", "performance", "view" }
        st == IF ~view_made \/ r.ends = "list" THEN start
              ELSE IF r.ends = "loop"
              THEN LoopBodyRaising(vms[r.at],
                                   CollectLoop(SubSeq(vms, 1, r.at - 1), start),
                                   r.call)
              ELSE CollectLoop(vms, start)
        written == IF r.ends \in { "zip", "returned" }
                   THEN Len(DefaultFilenames)
                   ELSE IF r.ends = "csv" THEN r.at - 1 ELSE 0
        attempted == IF r.ends = "csv" THEN r.at ELSE written
        tracked == TrackedAfterExport(csv_files, r.csv, written)
    IN  /\ PerfCollectorBecomes(
              IF a.export_statistics /\ r.ends # "source"
              THEN PerfCollectorAfter(inventory, PerfCollector,
                                      IF r.ends = "performance" THEN r.at ELSE 0,
                                      r.raising).coll
              ELSE PerfCollector)
        /\ seen_uuids' = st.seen
        /\ duplicate_uuids' = st.dups
        /\ container_views' = IF view_made
                              THEN Append(container_views, 1)
                              ELSE container_views
        /\ csv_files' = tracked
        /\ files' = FilesAfterExport(files, tracked, r.csv, written, attempted,
                                     r.zip, a.purge_csv)
        /\ UNCHANGED <<connected, vm_skip_list>>

\* main() is to be run: any inventory of MainShapes, with or without a skip
\* file, nothing called yet.
MainInit ==
    /\ \E n \in 0..MaxMainVMs : \E f \in [ 1..n -> MainShapes ] :
          inventory = [ k \in 1..n |-> MkVM(k, f[k]) ]
    /\ skip_file \in SkipFiles
    /\ connected = FALSE
    /\ vm_skip_list = <<>>
    /\ seen_uuids = {}
    /\ duplicate_uuids = EmptyDict
    /\ pc = "idle"
    /\ max_count = None
    /\ vms_to_process = <<>>
    /\ i = 1
    /\ vm_data = EmptyVmData
    /\ calls = <<>>
    /\ run = "none"
    /\ prev_info = <<>>
    /\ start_seen = {}
    /\ ConnFresh
    /\ SkipIdle
    /\ SampleIdle
    /\ PerfIdle
    /\ MainIdle
    /\ OthersIdle
    /\ ViewIdle

\* The orchestrator is created, with a connection on which nothing has been
\* called, no collector, and an exporter that tracks no file.
MainStart ==
    /\ main_pc = "start"
    /\ main_args = None
    /\ \E a \in MainArgs : main_args' = Some(a)
    /\ main_pc' = "try"
    /\ UNCHANGED <<main_path, export_calls, exit_requests, disconnect_calls,
                   exit_status>>
    /\ UNCHANGED conn_vars
    /\ UNCHANGED collector_vars
    /\ UNCHANGED exported_vars
    /\ UNCHANGED beside_main

\* Mutant: a failed connect() ends the process at once (sys.exit outside the
\* try statement).
MainConnect_ExitsAtOnce ==
    /\ main_pc = "try"
    /\ \E how \in ConnectRuns :
          LET r == OrchestratorConnectRun(Connection, how)
          IN  /\ ConnectionBecomes(r.conn)
              /\ conn_ops' = Append(conn_ops, r.op)
              /\ VmCollectorBecomes(r.vm_collector)
              /\ IF r.path = "connected"
                 THEN /\ main_pc' = "export"
                      /\ UNCHANGED <<main_path, exit_requests,
                                     disconnect_calls, exit_status>>
                 ELSE /\ main_pc' = "exited"
                      /\ main_path' = r.path
                      /\ exit_requests' = Append(exit_requests, 1)
                      /\ exit_status' = Some(1)
                      /\ UNCHANGED disconnect_calls
    /\ UNCHANGED <<main_args, export_calls>>
    /\ UNCHANGED exported_vars
    /\ UNCHANGED beside_main

\* if not orchestrator.connect(): ... sys.exit(1), and the except clauses
MainConnect ==
    /\ main_pc = "try"
    /\ \E how \in ConnectRuns :
          LET r == OrchestratorConnectRun(Connection, how)
          IN  /\ ConnectionBecomes(r.conn)
              /\ conn_ops' = Append(conn_ops, r.op)
              /\ VmCollectorBecomes(r.vm_collector)
              /\ IF r.path = "connected"
                 THEN /\ main_pc' = "export"
                      /\ UNCHANGED <<main_path, exit_requests,
                                     disconnect_calls, exit_status>>
                 ELSE /\ main_pc' = "finally"
                      /\ main_path' = r.path
                      /\ exit_requests' = Append(exit_requests, 1)
                      /\ UNCHANGED <<disconnect_calls, exit_status>>
    /\ UNCHANGED <<main_args, export_calls>>
    /\ UNCHANGED exported_vars
    /\ UNCHANGED beside_main

\* zip_file = orchestrator.export_data(...), what follows it in the try
\* block, and the except clauses
MainExport ==
    /\ main_pc = "export"
    /\ export_calls' = Append(export_calls, main_args[1])
    /\ \E r \in ExportRuns(main_args[1]) :
          /\ ExportData(main_args[1], r)
          /\ main_path' = IF r.kind = "exception" THEN "exception"
                          ELSE IF r.kind = "interrupt" THEN "interrupt"
                          ELSE IF r.zip = "zipped" THEN "success"
                          ELSE "no_zip"
          /\ exit_requests' = IF r.kind = "returns" /\ r.zip = "zipped"
                              THEN exit_requests
                              ELSE Append(exit_requests, 1)
    /\ main_pc' = "finally"
    /\ UNCHANGED <<main_args, disconnect_calls, exit_status>>
    /\ UNCHANGED conn_vars
    /\ UNCHANGED beside_main

\* finally: orchestrator.disconnect(), which calls connection.disconnect();
\* connect.Disconnect, if it is called, returns, raises or is interrupted by
\* the user.  Then the process ends.  The interpreter first calls what
\* atexit holds, connect.Disconnect for every session that connect()
\* registered, last registered first; what such a call raises is printed and
\* changes nothing.  The status of the process is the one asked of sys.exit,
\* or 0 if none was asked, when disconnect() returned; 1 when an exception
\* left disconnect(), for it replaces the SystemExit under way and nothing
\* catches it; and -2 (the process is killed by SIGINT) when a
\* KeyboardInterrupt did.
MainFinally ==
    /\ main_pc = "finally"
    /\ \E ends \in { "returns", "raises", "interrupted" } :
          LET r == ConnectionDisconnect(Connection, ends # "returns")
              registered == SelectSeq(r.conn.sdk_log,
                                      LAMBDA call : call.fn = "atexit.register")
              at_exit == [ k \in 1..Len(registered) |->
                             SdkCall("Disconnect",
                                     registered[Len(registered) + 1 - k].si) ]
          IN  /\ ConnectionBecomes([ r.conn EXCEPT !.sdk_log = @ \o at_exit ])
              /\ conn_ops' = Append(conn_ops, ConnOp("disconnect", r))
              /\ exit_status' =
                    Some(IF r.raised
                         THEN IF ends = "raises" THEN 1 ELSE -2
                         ELSE IF exit_requests = <<>> THEN 0
                         ELSE exit_requests[Len(exit_requests)])
    /\ disconnect_calls' = disconnect_calls + 1
    /\ main_pc' = "exited"
    /\ UNCHANGED <<main_args, main_path, export_calls, exit_requests>>
    /\ UNCHANGED collector_vars
    /\ UNCHANGED exported_vars
    /\ UNCHANGED beside_main

MainNext ==
    \/ MainStart
    \/ MainConnect
    \/ MainExport
    \/ MainFinally

MainSpec == MainInit /\ [][MainNext]_vars

\* The call that main() made of orchestrator.disconnect() returned.
MainDisconnectReturned == ~conn_ops[Len(conn_ops)].raised

(***************************************************************************)
(* C19.  From the creation of the orchestrator on, main() calls            *)
(* orchestrator.disconnect() once on every path, and not before the try    *)
(* block is left; it calls sys.exit(1) on every path but the one on which  *)
(* export_data returned a zip file, on which it calls sys.exit not at all. *)
(* The process then ends with the status asked for (0 when none was) if    *)
(* disconnect() returned, and with another status than 0 in any case on    *)
(* the paths on which 1 was asked for.                                     *)
(***************************************************************************)
C19_DisconnectOnceOnEveryPath ==
    /\ main_pc \in { "start", "try", "export", "finally" }
          => disconnect_calls = 0
    /\ main_pc \in { "finally", "exited" } =>
          /\ main_path \in { "success", "connect_false", "no_zip",
                             "interrupt", "exception" }
          /\ main_path = "success" => exit_requests = <<>>
          /\ main_path # "success" => exit_requests = << 1 >>
    /\ main_pc = "exited" =>
          /\ disconnect_calls = 1
          /\ Cardinality({ k \in 1..Len(conn_ops) :
                             conn_ops[k].op = "disconnect" }) = 1
          /\ MainDisconnectReturned =>
                exit_status = Some(IF main_path = "success" THEN 0 ELSE 1)
          /\ main_path # "success" => exit_status # Some(0)

\* connect() returned False: no export, one disconnect(), exit status 1.
C19_Witness ==
    /\ main_pc = "exited"
    /\ main_path = "connect_false"
    /\ export_calls = <<>>
    /\ disconnect_calls = 1
    /\ exit_requests = << 1 >>
    /\ exit_status = Some(1)

\* An exception left export_data after get_vm_network_properties raised for
\* a VM that had cleared the four checks, and connect.Disconnect was
\* interrupted in the finally clause: one disconnect(), sys.exit(1) asked
\* for, the process killed by SIGINT, and Disconnect called once more at
\* exit.
C19_WitnessRaisedInLoop ==
    /\ main_pc = "exited"
    /\ main_path = "exception"
    /\ seen_uuids = { "u1" }
    /\ container_views = << 1 >>
    /\ disconnect_calls = 1
    /\ exit_requests = << 1 >>
    /\ exit_status = Some(-2)
    /\ Cardinality(DisconnectsIn(sdk_log)) = 2


\* This step is a call of connect() on the connection alone.
ConnectStep ==
    /\ Len(conn_ops') = Len(conn_ops) + 1
    /\ conn_ops'[Len(conn_ops')].op = "connect"

\* ... and the call failed: it returned None.
ConnectFailed == conn_ops'[Len(conn_ops')].returned = None

(***************************************************************************)
(* C21.  A connect() that returns None leaves service_instance, content    *)
(* and container as they were before the call: all None on a connection on *)
(* which nothing had been called, the values of the session held           *)
(* otherwise.                                                              *)
(***************************************************************************)
C21_FailedConnectKeepsState ==
    [][ (ConnectStep /\ ConnectFailed) =>
          /\ UNCHANGED <<service_instance, content, container>>
          /\ conn_ops = <<>> =>
                /\ service_instance' = None
                /\ content' = None
                /\ container' = None ]_vars


(***************************************************************************)
(* collect_vm_data over VMs that differ in their NICs and disks, and with  *)
(* any max_count.                                                          *)
(***************************************************************************)
\* A VM that the skip file names, one that is powered off, one that has no
\* address; and VMs that clear these checks: p1 with UUID u1 and no NIC and
\* two disks, one of each, or two NICs and no disk; p2 with UUID u1 and one
\* of each; p2 without UUID and no NIC and two disks, or two NICs and no disk.
TableShapes ==
    { s \in [ name : VMNames, powerState : { "poweredOn", "poweredOff" },
              guestState : { "running" }, ipAddress : IpAddresses,
              uuid : UUIDs, nics : 0..2, disks : 0..2 ] :
        /\ s.name = <<"t", "1">> => s.powerState = "poweredOn"
        /\ s.powerState = "poweredOff" => s.name = <<"p", "1">>
        /\ (s.name = <<"t", "1">> \/ s.powerState = "poweredOff")
              => s.ipAddress = "10.0.0.1"
        /\ s.ipAddress = "" => s.name = <<"p", "2">>
        /\ (s.name # <<"p", "2">> \/ s.powerState = "poweredOff"
                \/ s.ipAddress = "") => s.uuid = "u1"
        /\ s.nics + s.disks = 2
        /\ (s.name = <<"t", "1">> \/ s.powerState = "poweredOff"
                \/ s.ipAddress = "") => s.nics = 1
        /\ (s.name = <<"p", "2">> /\ s.uuid = "u1") => s.nics = 1
        /\ s.uuid = "" => s.nics # 1 }

\* --max-count is any int, and None when it is not given
TableMaxCounts == { None, Some(-1), Some(0), Some(1), Some(2) }

TableInit ==
    /\ \E n \in 0..MaxVMs : \E f \in [ 1..n -> TableShapes ] :
          inventory = [ k \in 1..n |-> MkVM(k, f[k]) ]
    /\ skip_file \in SkipFiles \ { None }
    /\ connected = FALSE
    /\ vm_skip_list = <<>>
    /\ seen_uuids = {}
    /\ duplicate_uuids = EmptyDict
    /\ pc = "idle"
    /\ max_count = None
    /\ vms_to_process = <<>>
    /\ i = 1
    /\ vm_data = EmptyVmData
    /\ calls = <<>>
    /\ run = "none"
    /\ prev_info = <<>>
    /\ start_seen = {}
    /\ SkipIdle
    /\ SampleIdle
    /\ PerfIdle
    /\ ConnFresh
    /\ MainIdle
    /\ OthersIdle
    /\ ViewIdle

\* orchestrator.collect_vm_data(max_count), up to its loop
CallCollectVmData ==
    /\ connected
    /\ pc = "idle"
    /\ run = "none"
    /\ \E mc \in TableMaxCounts : Enter(mc, "first")

\* The collector calls that the iteration over vm makes when none raises.
IterationCalls(vm) == Len(LoopBody(vm, LoopState).calls) - Len(calls)

\* Mutant: Destroy() is called after the try statement, not in a finally
\* clause.
RaiseInLoop_ViewLeaked ==
    /\ pc = "loop"
    /\ i <= Len(vms_to_process)
    /\ \E n \in 1..IterationCalls(vms_to_process[i]) :
          LET st == LoopBodyRaising(vms_to_process[i], LoopState, n)
          IN  /\ vm_data' = st.data
              /\ seen_uuids' = st.seen
              /\ duplicate_uuids' = st.dups
              /\ calls' = st.calls
    /\ pc' = "raised"
    /\ UNCHANGED view_vars
    /\ UNCHANGED <<inventory, skip_file, connected, vm_skip_list, max_count,
                   vms_to_process, i, run, prev_info, start_seen>>
    /\ UNCHANGED beside_collect

\* A collector call of the iteration raises: the finally clause destroys the
\* view and the exception leaves collect_vm_data.
RaiseInLoop ==
    /\ pc = "loop"
    /\ i <= Len(vms_to_process)
    /\ \E n \in 1..IterationCalls(vms_to_process[i]) :
          LET st == LoopBodyRaising(vms_to_process[i], LoopState, n)
          IN  /\ vm_data' = st.data
              /\ seen_uuids' = st.seen
              /\ duplicate_uuids' = st.dups
              /\ calls' = st.calls
    /\ pc' = "raised"
    /\ DestroyView
    /\ UNCHANGED <<inventory, skip_file, connected, vm_skip_list, max_count,
                   vms_to_process, i, run, prev_info, start_seen>>
    /\ UNCHANGED beside_collect

\* print_duplicate_uuids_summary, after the loop, raises.
RaiseInSummary ==
    /\ pc = "loop"
    /\ i > Len(vms_to_process)
    /\ pc' = "raised"
    /\ DestroyView
    /\ UNCHANGED <<inventory, skip_file, connected, vm_skip_list, seen_uuids,
                   duplicate_uuids, max_count, vms_to_process, i, vm_data,
                   calls, run, prev_info, start_seen>>
    /\ UNCHANGED beside_collect

TableNext ==
    \/ Connect
    \/ CallCollectVmData
    \/ ProcessVM
    \/ RaiseInLoop
    \/ RaiseInSummary
    \/ FinishCollect

TableSpec == TableInit /\ [][TableNext]_vars

(***************************************************************************)
(* C22.  For a VM that has no NICs get_vm_network_properties returns None, *)
(* and the iteration of collect_vm_data over such a VM adds no row to any  *)
(* table.                                                                  *)
(***************************************************************************)
C22_NoNicsNotKept ==
    [][ (LoopStep /\ VMAt(i).nics = 0) =>
          /\ GetVmNetworkProperties(VMAt(i)) = None
          /\ vm_data' = vm_data ]_vars


\* performance_collector.get_available_metrics(entity), the server calls
\* named in raising raising if they are made
CallGetAvailableMetrics ==
    /\ Len(metric_calls) < MaxMetricCalls
    /\ \E entity \in MetricEntities :
          \E raising \in SUBSET { "perfCounter", "QueryAvailablePerfMetric" } :
             LET r == GetAvailableMetrics(PerfCollector, entity, raising)
             IN  /\ PerfCollectorBecomes(r.coll)
                 /\ metric_calls' =
                       Append(metric_calls,
                              [ fn |-> "get_available_metrics",
                                entity |-> entity.id,
                                type |-> entity.type,
                                returned |-> r.returned,
                                raised |-> r.raised ])
    /\ UNCHANGED beside_metrics

\* performance_collector._initialize_counters(), as get_metric_values calls
\* it, the read of perfCounter raising or not if it is made
CallInitializeCounters ==
    /\ Len(metric_calls) < MaxMetricCalls
    /\ \E raising \in SUBSET { "perfCounter" } :
          LET r == InitializeCounters(PerfCollector, raising)
          IN  /\ PerfCollectorBecomes(r.coll)
              /\ metric_calls' =
                    Append(metric_calls,
                           [ fn |-> "_initialize_counters", entity |-> 0,
                             type |-> "", returned |-> None,
                             raised |-> r.raised ])
    /\ UNCHANGED beside_metrics

\* The PerformanceCollector that connect() made on a new orchestrator:
\* __init__ has retrieved the content of the session (the last call of
\* sdk_log), nothing is cached, no counter is loaded.
MetricsInit ==
    /\ MetricsFresh
    /\ ConnOpened
    /\ inventory = <<>>
    /\ skip_file = None
    /\ connected = TRUE
    /\ vm_skip_list = LoadVmSkipList(skip_file)
    /\ seen_uuids = {}
    /\ duplicate_uuids = EmptyDict
    /\ pc = "idle"
    /\ max_count = None
    /\ vms_to_process = <<>>
    /\ i = 1
    /\ vm_data = EmptyVmData
    /\ calls = <<>>
    /\ run = "none"
    /\ prev_info = <<>>
    /\ start_seen = {}
    /\ ZipIdle
    /\ ViewIdle
    /\ SkipIdle
    /\ SampleIdle
    /\ PerfIdle
    /\ MainIdle

MetricsNext == CallGetAvailableMetrics \/ CallInitializeCounters

MetricsSpec == MetricsInit /\ [][MetricsNext]_vars

\* The times perfManager was asked for fn about an entity of one of ids.
AskedOf(fn, ids) ==
    Cardinality({ k \in 1..Len(perf_manager_log) :
                    /\ perf_manager_log[k].fn = fn
                    /\ perf_manager_log[k].entity \in ids })

\* ... and answered.
AnsweredOf(fn, ids) ==
    Cardinality({ k \in 1..Len(perf_manager_log) :
                    /\ perf_manager_log[k].fn = fn
                    /\ perf_manager_log[k].entity \in ids
                    /\ perf_manager_log[k].answered })

EntitiesOfType(t) == { e.id : e \in { x \in MetricEntities : x.type = t } }

MetricTypes == { e.type : e \in MetricEntities }

\* The calls of get_available_metrics made so far, by position.
MetricCallsOf(t) ==
    { k \in 1..Len(metric_calls) :
        metric_calls[k].fn = "get_available_metrics" /\ metric_calls[k].type = t }

\* ... those of them that returned.
ReturnedCallsOf(t) == { k \in MetricCallsOf(t) : ~metric_calls[k].raised }

\* This step is a call of get_available_metrics for an entity whose type an
\* earlier call has had.
LaterMetricsStep ==
    /\ Len(metric_calls') = Len(metric_calls) + 1
    /\ metric_calls'[Len(metric_calls')].fn = "get_available_metrics"
    /\ MetricCallsOf(metric_calls'[Len(metric_calls')].type) # {}

\* This step is a call of get_available_metrics for an entity whose type an
\* earlier call that returned has had.
MetricsStepAfterReturn ==
    /\ LaterMetricsStep
    /\ ReturnedCallsOf(metric_calls'[Len(metric_calls')].type) # {}

(***************************************************************************)
(* C23 as stated.  On one PerformanceCollector, whatever calls are made:   *)
(* QueryAvailablePerfMetric is asked at most once for the entities of one  *)
(* type, perfCounter is read at most once, and a call of                   *)
(* get_available_metrics for an entity whose type an earlier call has had  *)
(* asks the server nothing and returns what the first call for that type   *)
(* returned.                                                               *)
(***************************************************************************)
C23_MetricsQueriedOncePerType ==
    [][ /\ AskedOf("perfCounter", { 0 })' <= 1
        /\ \A t \in MetricTypes :
              AskedOf("QueryAvailablePerfMetric", EntitiesOfType(t))' <= 1
        /\ LaterMetricsStep =>
              LET t == metric_calls'[Len(metric_calls')].type
                  first == CHOOSE k \in MetricCallsOf(t) :
                               \A j \in MetricCallsOf(t) : k <= j
              IN  /\ perf_manager_log' = perf_manager_log
                  /\ metric_calls'[Len(metric_calls')].returned
                        = metric_calls[first].returned ]_vars

(***************************************************************************)
(* C23, amended.  On one PerformanceCollector, whatever calls are made and *)
(* whichever of them the server answers: QueryAvailablePerfMetric is       *)
(* answered at most once for the entities of one type and is not asked     *)
(* again for that type once it has been answered, perfCounter is read with *)
(* success at most once and is not read again after that, and a call of    *)
(* get_available_metrics for an entity whose type an earlier call that     *)
(* returned has had asks the server nothing, raises nothing and returns    *)
(* what the first call that returned for that type returned.               *)
(***************************************************************************)
C23_MetricsAnsweredOncePerType ==
    [][ /\ AnsweredOf("perfCounter", { 0 })' <= 1
        /\ AnsweredOf("perfCounter", { 0 }) = 1 =>
              AskedOf("perfCounter", { 0 })' = AskedOf("perfCounter", { 0 })
        /\ \A t \in MetricTypes :
              /\ AnsweredOf("QueryAvailablePerfMetric", EntitiesOfType(t))' <= 1
              /\ AnsweredOf("QueryAvailablePerfMetric", EntitiesOfType(t)) = 1 =>
                    AskedOf("QueryAvailablePerfMetric", EntitiesOfType(t))'
                        = AskedOf("QueryAvailablePerfMetric", EntitiesOfType(t))
        /\ MetricsStepAfterReturn =>
              LET t == metric_calls'[Len(metric_calls')].type
                  first == CHOOSE k \in ReturnedCallsOf(t) :
                               \A j \in ReturnedCallsOf(t) : k <= j
              IN  /\ perf_manager_log' = perf_manager_log
                  /\ ~metric_calls'[Len(metric_calls')].raised
                  /\ metric_calls'[Len(metric_calls')].returned
                        = metric_calls[first].returned ]_vars

\* QueryAvailablePerfMetric raised for VM 1 and was asked again, with success,
\* by the next call for VM 1; then the metrics of VM 2, whose counters are
\* others, were asked for: the third call returned the metrics of VM 1, and
\* the server was asked twice and answered once.
C23_Witness ==
    /\ Len(metric_calls) >= 3
    /\ metric_calls[1].entity = 1 /\ metric_calls[1].raised
    /\ metric_calls[2].entity = 1 /\ ~metric_calls[2].raised
    /\ metric_calls[3].entity = 2 /\ ~metric_calls[3].raised
    /\ metric_calls[3].returned = metric_calls[2].returned
    /\ DOMAIN metric_calls[3].returned[1]
          = { "cpu.usage.average", "mem.usage.average" }
    /\ AskedOf("QueryAvailablePerfMetric", { 1, 2 }) = 2
    /\ AnsweredOf("QueryAvailablePerfMetric", { 1, 2 }) = 1
    /\ AnsweredOf("perfCounter", { 0 }) = 1


\* The VMs that have been examined in this run (_should_skip_vm is the first
\* thing an iteration does), by managed object id and in order.
Examined ==
    LET first == SelectSeq(calls, LAMBDA c : c.fn = "_should_skip_vm")
    IN  [ k \in 1..Len(first) |-> first[k].vm ]

\* How many calls of fn this run has made.
CallsOf(fn) == Cardinality({ k \in 1..Len(calls) : calls[k].fn = fn })

\* The number of VMs that collect_vm_data(max_count) is to examine.
ToExamine ==
    IF max_count # None /\ max_count[1] >= 1 /\ max_count[1] < Len(inventory)
    THEN max_count[1]
    ELSE Len(inventory)

(***************************************************************************)
(* C24.  With a max_count of 1 or more, collect_vm_data examines the first *)
(* max_count VMs of the inventory (all of them if there are fewer), in     *)
(* inventory order, whatever the checks make of them: no other VM is       *)
(* passed to any collector method, get_vm_properties is called at most     *)
(* max_count times and at most max_count records are kept.  With max_count *)
(* None, 0 or negative it examines every VM of the inventory.              *)
(***************************************************************************)
C24_MaxCountBeforeFiltering ==
    pc \in { "loop", "done" } =>
        /\ Len(Examined) <= ToExamine
        /\ \A k \in 1..Len(Examined) : Examined[k] = inventory[k].moId
        /\ \A k \in 1..Len(calls) :
              \E j \in 1..ToExamine : calls[k].vm = inventory[j].moId
        /\ pc = "done" => Len(Examined) = ToExamine
        /\ (max_count # None /\ max_count[1] >= 1) =>
              /\ CallsOf("get_vm_properties") <= max_count[1]
              /\ Len(vm_data.vm_info) <= max_count[1]

\* Of three VMs the first two were examined, with max_count 2: the first was
\* dropped, the second kept, and the third, which no check would drop, has
\* no row.
C24_Witness ==
    /\ pc = "done"
    /\ max_count = Some(2)
    /\ Len(inventory) = 3
    /\ Examined = << inventory[1].moId, inventory[2].moId >>
    /\ ~InInfo(inventory[1]) /\ InInfo(inventory[2])
    /\ ClearsFirstThree(inventory[3]) /\ inventory[3].uuid = ""
    /\ Len(vm_data.vm_info) = 1

\* Every VM of a non-empty inventory was examined with max_count 0, or -1.
C24_WitnessNotPositive ==
    /\ pc = "done"
    /\ max_count \in { Some(0), Some(-1) }
    /\ Len(inventory) >= 2
    /\ Len(Examined) = Len(inventory)


(***************************************************************************)
(* CSVExporter.create_zip_archive, statement by statement.  ZipFile(...),  *)
(* zipf.write, the close of the archive at the end of the with block and   *)
(* os.remove each return or raise; whatever is raised is caught by the     *)
(* except clause, which returns None.                                      *)
(***************************************************************************)
CsvNames == { "a.csv", "b.csv" }

\* write_csv_file has tracked up to MaxCsvFiles files (a name can be tracked
\* twice), and some of them are no longer there.
ZipInit ==
    /\ \E n \in 0..MaxCsvFiles : \E f \in [ 1..n -> CsvNames ] :
          /\ csv_files = [ k \in 1..n |-> f[k] ]
          /\ files \in SUBSET { f[k] : k \in 1..n }
    /\ files_before = {}
    /\ purge_csv = FALSE
    /\ zip_pc = "idle"
    /\ zip_idx = 1
    /\ zipf = [ state |-> "none", written |-> <<>> ]
    /\ removed = <<>>
    /\ zip_returned = None
    /\ MetricsFresh
    /\ ViewIdle
    /\ CollectIdle
    /\ SkipIdle
    /\ SampleIdle
    /\ PerfIdle
    /\ ConnFresh
    /\ MainIdle

\* except Exception as e: ... return None
ZipExcept ==
    /\ zip_pc' = "returned"
    /\ zip_returned' = Some(None)

\* create_zip_archive(zip_filename, purge_csv) down to zipfile.ZipFile(...)
CreateZipArchive ==
    /\ zip_pc = "idle"
    /\ \E purge \in BOOLEAN : purge_csv' = purge
    /\ files_before' = files
    /\ \E raises \in BOOLEAN :
          IF raises
          THEN /\ ZipExcept
               /\ UNCHANGED <<zipf, zip_idx>>
          ELSE /\ zipf' = [ state |-> "open", written |-> <<>> ]
               /\ zip_idx' = 1
               /\ zip_pc' = "write"
               /\ UNCHANGED zip_returned
    /\ UNCHANGED <<csv_files, files, removed>>
    /\ UNCHANGED beside_zip

\* Mutant: a file is removed as soon as it is written to the archive.
ZipWriteFile_RemovesAtOnce ==
    /\ zip_pc = "write"
    /\ zip_idx <= Len(csv_files)
    /\ LET file == csv_files[zip_idx]
       IN  IF file \in files
           THEN \E raises \in BOOLEAN :
                   IF raises
                   THEN /\ zipf' = [ zipf EXCEPT !.state = "failed" ]
                        /\ ZipExcept
                        /\ UNCHANGED <<zip_idx, files, removed>>
                   ELSE /\ zipf' = [ zipf EXCEPT !.written = Append(@, file) ]
                        /\ zip_idx' = zip_idx + 1
                        /\ (IF purge_csv
                            THEN /\ files' = files \ { file }
                                 /\ removed' = Append(removed, file)
                            ELSE UNCHANGED <<files, removed>>)
                        /\ UNCHANGED <<zip_pc, zip_returned>>
           ELSE /\ zip_idx' = zip_idx + 1
                /\ UNCHANGED <<zipf, zip_pc, zip_returned, files, removed>>
    /\ UNCHANGED <<csv_files, files_before, purge_csv>>
    /\ UNCHANGED beside_zip

\* for file in self.csv_files: if os.path.exists(file): zipf.write(...).  An
\* exception leaves the with block, which closes what there is of the archive.
ZipWriteFile ==
    /\ zip_pc = "write"
    /\ zip_idx <= Len(csv_files)
    /\ LET file == csv_files[zip_idx]
       IN  IF file \in files
           THEN \E raises \in BOOLEAN :
                   IF raises
                   THEN /\ zipf' = [ zipf EXCEPT !.state = "failed" ]
                        /\ ZipExcept
                        /\ UNCHANGED zip_idx
                   ELSE /\ zipf' = [ zipf EXCEPT !.written = Append(@, file) ]
                        /\ zip_idx' = zip_idx + 1
                        /\ UNCHANGED <<zip_pc, zip_returned>>
           ELSE /\ zip_idx' = zip_idx + 1
                /\ UNCHANGED <<zipf, zip_pc, zip_returned>>
    /\ UNCHANGED <<csv_files, files, files_before, purge_csv, removed>>
    /\ UNCHANGED beside_zip

\* Mutant: the files are purged whatever purge_csv is.
ZipClose_AlwaysPurges ==
    /\ zip_pc = "write"
    /\ zip_idx > Len(csv_files)
    /\ \E raises \in BOOLEAN :
          IF raises
          THEN /\ zipf' = [ zipf EXCEPT !.state = "failed" ]
               /\ ZipExcept
               /\ UNCHANGED zip_idx
          ELSE /\ zipf' = [ zipf EXCEPT !.state = "closed" ]
               /\ zip_idx' = 1
               /\ zip_pc' = "purge"
               /\ UNCHANGED zip_returned
    /\ UNCHANGED <<csv_files, files, files_before, purge_csv, removed>>
    /\ UNCHANGED beside_zip

\* The end of the with block: the archive is closed.  Then, with purge_csv
\* false, return zip_filename.
ZipClose ==
    /\ zip_pc = "write"
    /\ zip_idx > Len(csv_files)
    /\ \E raises \in BOOLEAN :
          IF raises
          THEN /\ zipf' = [ zipf EXCEPT !.state = "failed" ]
               /\ ZipExcept
               /\ UNCHANGED zip_idx
          ELSE /\ zipf' = [ zipf EXCEPT !.state = "closed" ]
               /\ zip_idx' = 1
               /\ IF purge_csv
                  THEN /\ zip_pc' = "purge"
                       /\ UNCHANGED zip_returned
                  ELSE /\ zip_pc' = "returned"
                       /\ zip_returned' = Some(Some("vcexport.zip"))
    /\ UNCHANGED <<csv_files, files, files_before, purge_csv, removed>>
    /\ UNCHANGED beside_zip

\* for file in self.csv_files: if os.path.exists(file): os.remove(file)
PurgeFile ==
    /\ zip_pc = "purge"
    /\ zip_idx <= Len(csv_files)
    /\ LET file == csv_files[zip_idx]
       IN  IF file \in files
           THEN \E raises \in BOOLEAN :
                   IF raises
                   THEN /\ ZipExcept
                        /\ UNCHANGED <<zip_idx, files, removed>>
                   ELSE /\ files' = files \ { file }
                        /\ removed' = Append(removed, file)
                        /\ zip_idx' = zip_idx + 1
                        /\ UNCHANGED <<zip_pc, zip_returned>>
           ELSE /\ zip_idx' = zip_idx + 1
                /\ UNCHANGED <<files, removed, zip_pc, zip_returned>>
    /\ UNCHANGED <<csv_files, files_before, purge_csv, zipf>>
    /\ UNCHANGED beside_zip

\* return zip_filename, after the purge
ZipReturn ==
    /\ zip_pc = "purge"
    /\ zip_idx > Len(csv_files)
    /\ zip_pc' = "returned"
    /\ zip_returned' = Some(Some("vcexport.zip"))
    /\ UNCHANGED <<csv_files, files, files_before, purge_csv, zip_idx, zipf,
                   removed>>
    /\ UNCHANGED beside_zip

ZipNext ==
    \/ CreateZipArchive
    \/ ZipWriteFile
    \/ ZipClose
    \/ PurgeFile
    \/ ZipReturn

ZipSpec == ZipInit /\ [][ZipNext]_vars

\* The tracked files that were there when create_zip_archive was called, in
\* the order of csv_files.
TrackedBefore == SelectSeq(csv_files, LAMBDA f : f \in files_before)

\* The archive is completely written: every tracked file that was there is
\* in it, and it is closed.
ArchiveComplete == zipf.state = "closed" /\ zipf.written = TrackedBefore

(***************************************************************************)
(* C25.  create_zip_archive gives a file to os.remove only when purge_csv  *)
(* is true and the archive has been completely written; a call in which    *)
(* ZipFile, a write or the close of the archive raised returns None and    *)
(* has removed no file; with purge_csv false no file is removed.           *)
(***************************************************************************)
C25_PurgeOnlyAfterArchive ==
    /\ [][ (removed' # removed \/ files' # files) =>
             /\ purge_csv
             /\ ArchiveComplete
             /\ ArchiveComplete' ]_vars
    /\ []( zip_pc # "idle" =>
             /\ (removed # <<>> \/ files # files_before)
                   => purge_csv /\ ArchiveComplete
             /\ (zip_pc = "returned" /\ zipf.state # "closed") =>
                   /\ zip_returned = Some(None)
                   /\ removed = <<>>
                   /\ files = files_before
             /\ ~purge_csv => removed = <<>> /\ files = files_before )

\* Of three tracked files one had gone missing and the other two are one
\* file tracked twice: it was written to the archive twice, and then removed
\* once.
C25_Witness ==
    /\ zip_pc = "returned"
    /\ purge_csv
    /\ zip_returned = Some(Some("vcexport.zip"))
    /\ Len(csv_files) = 3
    /\ \E k \in 1..3 : csv_files[k] \notin files_before
    /\ Len(zipf.written) = 2
    /\ Len(removed) = 1
    /\ files = {}

\* A write raised after a file had been written to the archive: None is
\* returned and every file is still there.
C25_WitnessFailure ==
    /\ zip_pc = "returned"
    /\ purge_csv
    /\ zipf.state = "failed"
    /\ Len(zipf.written) >= 1
    /\ zip_returned = Some(None)
    /\ files = files_before /\ files # {}


\* How many times the view of this run has been destroyed.
DestroyedNow == container_views[Len(container_views)]

(***************************************************************************)
(* C26.  The container view that a run of collect_vm_data created is not   *)
(* destroyed while the loop runs, and has been destroyed once, no more,    *)
(* when the run is over: when it returned, and when a collector call in an *)
(* iteration (or the summary after the loop) raised.                       *)
(***************************************************************************)
C26_ViewDestroyedOnce ==
    /\ pc = "idle" => container_views = <<>>
    /\ pc # "idle" => Len(container_views) = 1
    /\ pc = "loop" => DestroyedNow = 0
    /\ pc \in { "done", "raised" } => DestroyedNow = 1

\* A VM was kept, and then a getter raised for a second VM whose rows had
\* begun to be added; the view has been destroyed.
C26_Witness ==
    /\ pc = "raised"
    /\ i = 2
    /\ Len(vm_data.vm_info) = 2
    /\ Len(vm_data.vm_tools) = 1
    /\ container_views = << 1 >>


(***************************************************************************)
(* The legacy script, vcexport.export_vm_data: its VM loop.  The ledger    *)
(* and the lists are locals of the call, made anew by every call, and so   *)
(* is the skip list, which load_vm_skip_list reads from vm-skip-list.txt   *)
(* in each call: the file is taken to be the one that the VMCollector      *)
(* reads.                                                                  *)
(***************************************************************************)
\* vcexport.get_vm_properties
LegacyGetVmProperties(vm) ==
    IF vm.powerState = "poweredOff" \/ vm.guestState = "notRunning"
    THEN None
    ELSE Some([ VM |-> vm.name,
                Powerstate |-> vm.powerState,
                PrimaryIpAddress |-> vm.ipAddress,
                VmId |-> vm.moId,
                VmUuid |-> vm.uuid ])

\* The loop over vm_skip_list at the head of an iteration: what it makes of
\* skip_vm, and "TypeError" when vm_skip_list is None, over which a for
\* statement cannot iterate.
LegacySkipVm(vm, loaded) ==
    IF loaded = None
    THEN "TypeError"
    ELSE LET skip_list == loaded[1]
         IN  IF \E k \in 1..Len(skip_list) :
                    IF HasRegexChar(skip_list[k])
                    THEN ReSearch(skip_list[k], vm.name)
                    ELSE vm.name = skip_list[k]
             THEN "skip"
             ELSE "process"

\* all_vms[:max_count] when max_count is a positive int, all_vms otherwise
LegacyLimit(all_vms, mc) ==
    IF mc # None /\ mc[1] > 0
    THEN SubSeq(all_vms, 1, IF mc[1] < Len(all_vms) THEN mc[1] ELSE Len(all_vms))
    ELSE all_vms

\* The locals before the loop.  load_vm_skip_list(skip_list_path) returns
\* None when there is no file and the list of its patterns when there is
\* one: what skip_file is.
LegacyStart(file) ==
    [ vm_skip_list |-> file, seen_uuids |-> {},
      duplicate_uuids |-> EmptyDict, vm_info_list |-> <<>>,
      raised |-> FALSE ]

\* One iteration of the loop, from the locals st; raised says that an
\* exception left the iteration.
LegacyLoopBody(vm, st) ==
    LET p    == LegacyGetVmProperties(vm)
        uuid == DictGet(p[1], "VmUuid", "")
        skip == LegacySkipVm(vm, st.vm_skip_list)
    IN  IF skip = "TypeError" THEN [ st EXCEPT !.raised = TRUE ]
        ELSE IF skip = "skip" THEN st
        ELSE IF p = None THEN st
        ELSE IF DictGet(p[1], "PrimaryIpAddress", "") = "" THEN st
        ELSE IF uuid # "" /\ uuid \in st.seen_uuids
        THEN [ st EXCEPT !.duplicate_uuids =
                   IF uuid \in DOMAIN @
                   THEN [ @ EXCEPT ![uuid] = Append(@, vm.name) ]
                   ELSE @ @@ (uuid :> << vm.name >>) ]
        ELSE [ st EXCEPT !.seen_uuids = IF uuid # "" THEN @ \cup { uuid } ELSE @,
                         !.vm_info_list = Append(@, p[1]) ]

\* The loop over vms, from the locals st: it ends with the list, or with the
\* iteration that an exception leaves.
RECURSIVE LegacyLoop(_, _)
LegacyLoop(vms, st) ==
    IF vms = <<>> \/ st.raised THEN st
    ELSE LegacyLoop(Tail(vms), LegacyLoopBody(Head(vms), st))

\* The locals of export_vm_data after its loop, or when an exception left
\* the loop (no except clause of export_vm_data catches it); file is
\* vm-skip-list.txt.
LegacyExportVmData(all_vms, file, mc) ==
    LegacyLoop(LegacyLimit(all_vms, mc), LegacyStart(file))

\* The managed object ids of the rows of a vm_info table, in order
IdsOf(info) == [ k \in 1..Len(info) |-> info[k].VmId ]

(***************************************************************************)
(* C27.  When collect_vm_data has returned, the loop of the legacy         *)
(* export_vm_data for the same inventory, the same vm-skip-list.txt and    *)
(* the same max_count comes to its end too, and the VMs kept (the rows of  *)
(* vm_info, in order) and the names duplicate_uuids holds for each UUID    *)
(* are those of the legacy loop.                                           *)
(***************************************************************************)
C27_SameAsLegacy ==
    pc = "done" =>
        LET legacy == LegacyExportVmData(inventory, skip_file, max_count)
        IN  /\ ~legacy.raised
            /\ IdsOf(vm_data.vm_info) = IdsOf(legacy.vm_info_list)
            /\ duplicate_uuids = legacy.duplicate_uuids

\* The same, of the runs of a collector that has made no run before, when
\* there is a vm-skip-list.txt or no VM to go through.
C27_SameAsLegacyFirstRunWithFile ==
    (pc = "done" /\ run # "again"
         /\ (skip_file # None \/ vms_to_process = <<>>))
        => C27_SameAsLegacy

\* A first run that kept a VM, dropped one for its name and logged a
\* duplicate, as the legacy loop does.
C27_WitnessFirstRun ==
    /\ pc = "done" /\ run = "first"
    /\ Len(vm_data.vm_info) >= 1
    /\ "u1" \in DOMAIN duplicate_uuids
    /\ \E k \in Processed : SkippedByName(VMAt(k))
    /\ C27_SameAsLegacy

\* A first run with no vm-skip-list.txt kept a VM; the legacy loop raises
\* TypeError for the first VM and keeps none.
C27_WitnessNoFile ==
    /\ pc = "done" /\ run = "first"
    /\ skip_file = None
    /\ Len(vm_data.vm_info) >= 1
    /\ LegacyExportVmData(inventory, skip_file, max_count).raised
    /\ LegacyExportVmData(inventory, skip_file, max_count).vm_info_list = <<>>


\* The UUIDs, other than the empty one, of the rows of vm_info
KeptUuids ==
    { vm_data.vm_info[k].VmUuid : k \in 1..Len(vm_data.vm_info) } \ { "" }

\* seen_uuids is the set of the non-empty UUIDs of the rows of vm_info, no
\* two rows of vm_info have the same non-empty UUID, and every key of
\* duplicate_uuids is in seen_uuids and has a list of at least one name.
LedgerMatchesKept ==
    /\ seen_uuids = KeptUuids
    /\ \A j, k \in 1..Len(vm_data.vm_info) :
          (j # k /\ vm_data.vm_info[j].VmUuid # "")
              => vm_data.vm_info[j].VmUuid # vm_data.vm_info[k].VmUuid
    /\ \A u \in DOMAIN duplicate_uuids :
          u \in seen_uuids /\ Len(duplicate_uuids[u]) >= 1

(***************************************************************************)
(* C28.  In a run of collect_vm_data that started with an empty ledger,    *)
(* at every point from its call on (before and after every iteration of    *)
(* the loop, when it has returned, when an exception has left it):         *)
(* seen_uuids is the set of the non-empty UUIDs of the rows of vm_info, no *)
(* two rows of vm_info have the same non-empty UUID, and every key of      *)
(* duplicate_uuids is in seen_uuids and has a list of at least one name.   *)
(***************************************************************************)
C28_LedgerInvariants ==
    (pc \in { "loop", "done", "raised" } /\ start_seen = {})
        => LedgerMatchesKept

\* The same, of the runs that no exception has left.
C28_LedgerInvariantsUnlessRaised ==
    (pc \in { "loop", "done" } /\ start_seen = {}) => LedgerMatchesKept

\* Three VMs have been through the loop: one kept with UUID u1 and no NIC,
\* one kept with no UUID, one dropped as a repeat of u1.
C28_Witness ==
    /\ pc = "loop" /\ i = 4 /\ start_seen = {}
    /\ Len(vm_data.vm_info) = 2
    /\ \E k \in 1..2 : vm_data.vm_info[k].VmUuid = ""
    /\ \E k \in Processed : InInfo(VMAt(k)) /\ VMAt(k).uuid = "u1" /\ VMAt(k).nics = 0
    /\ seen_uuids = { "u1" }
    /\ DOMAIN duplicate_uuids = { "u1" } /\ Len(duplicate_uuids["u1"]) = 1

\* get_vm_network_properties raised for the first VM, which had cleared the
\* four checks: its UUID is in seen_uuids and vm_info has no row.
C28_WitnessRaised ==
    /\ pc = "raised" /\ i = 1 /\ start_seen = {}
    /\ seen_uuids = { "u1" }
    /\ vm_data.vm_info = <<>>
    /\ calls[Len(calls)].fn = "get_vm_network_properties"


\* The VMs of this run that have a row in vm_info, in the order of the
\* inventory.
KeptOfRun == SelectSeq(vms_to_process, InInfo)

\* The "VM" column of a table
NamesOf(table) == [ k \in 1..Len(table) |-> table[k].VM ]

\* The names of vms, each as many times as the VM has devices of the kind
\* (nics or disks), and once when it has none.
RECURSIVE BlockNames(_, _)
BlockNames(vms, kind) ==
    IF vms = <<>> THEN <<>>
    ELSE LET vm == Head(vms)
             n  == IF vm[kind] > 0 THEN vm[kind] ELSE 1
         IN  [ k \in 1..n |-> vm.name ] \o BlockNames(Tail(vms), kind)

\* How many of vms have no device of the kind
NoneOfKind(vms, kind) == Len(SelectSeq(vms, LAMBDA vm : vm[kind] = 0))

\* vm was dropped by a check: by name, state or address, or as a repeat of
\* the UUID of an earlier VM that reached the duplicate check.
Dropped(k) ==
    \/ ~ClearsFirstThree(VMAt(k))
    \/ /\ VMAt(k).uuid # ""
       /\ \E j \in 1..(k - 1) :
             VMAt(j).uuid = VMAt(k).uuid /\ ClearsFirstThree(VMAt(j))

(***************************************************************************)
(* C29.  When collect_vm_data has returned: no VM that a check dropped has *)
(* a row in vm_info; vm_info has one row for each kept VM, in the order of *)
(* the inventory, and vm_cpu, vm_memory and vm_tools name the same VMs row *)
(* by row; vm_network is, kept VM after kept VM, one row for each NIC of   *)
(* the VM, or one row with an empty network when it has no NIC; vm_disk    *)
(* and vm_partition likewise with disks.  So every table has at least one  *)
(* row for each kept VM and none for any other.                            *)
(***************************************************************************)
C29_TablesConsistent ==
    pc = "done" =>
        LET kept  == KeptOfRun
            names == [ k \in 1..Len(kept) |-> kept[k].name ]
        IN  /\ \A k \in 1..Len(vms_to_process) : Dropped(k) => ~InInfo(VMAt(k))
            /\ IdsOf(vm_data.vm_info) = [ k \in 1..Len(kept) |-> kept[k].moId ]
            /\ NamesOf(vm_data.vm_info) = names
            /\ NamesOf(vm_data.vm_cpu) = names
            /\ NamesOf(vm_data.vm_memory) = names
            /\ NamesOf(vm_data.vm_tools) = names
            /\ NamesOf(vm_data.vm_network) = BlockNames(kept, "nics")
            /\ NamesOf(vm_data.vm_disk) = BlockNames(kept, "disks")
            /\ NamesOf(vm_data.vm_partition) = BlockNames(kept, "disks")
            /\ Len(SelectSeq(vm_data.vm_network, LAMBDA r : r.Network = ""))
                   = NoneOfKind(kept, "nics")
            /\ Len(SelectSeq(vm_data.vm_disk, LAMBDA r : r.DiskKey = ""))
                   = NoneOfKind(kept, "disks")
            /\ Len(SelectSeq(vm_data.vm_partition, LAMBDA r : r.DiskKey = ""))
                   = NoneOfKind(kept, "disks")

\* A run over three VMs that kept one without NIC and with two disks and
\* one with two NICs and no disk, and dropped the VM between them.
C29_Witness ==
    /\ pc = "done"
    /\ Len(vms_to_process) = 3
    /\ InInfo(VMAt(1)) /\ VMAt(1).nics = 0 /\ VMAt(1).disks = 2
    /\ Dropped(2) /\ ~InInfo(VMAt(2))
    /\ InInfo(VMAt(3)) /\ VMAt(3).nics = 2 /\ VMAt(3).disks = 0
    /\ Len(vm_data.vm_info) = 2
    /\ Len(vm_data.vm_network) = 3
    /\ Len(vm_data.vm_disk) = 3


(***************************************************************************)
(* C30.  For every interval of w >= 1 minutes, the samples and the period  *)
(* (interval_id, in seconds) returned are such that the samples fit in the *)
(* w * 60 seconds of the interval and one sample more does not:            *)
(* samples * interval_id <= w * 60 < (samples + 1) * interval_id.          *)
(***************************************************************************)
C30_MostSamplesThatFit ==
    (Sampled /\ interval_mins >= 1) =>
        /\ Plan.samples * Plan.interval_id <= interval_mins * 60
        /\ interval_mins * 60 < (Plan.samples + 1) * Plan.interval_id

\* An interval that is no multiple of the period chosen: 1443 minutes get 48
\* samples of 30 minutes, which leave 3 minutes uncovered; 10085 minutes get
\* 84 samples of 2 hours, which leave 5 minutes uncovered.
C30_Witness ==
    /\ Sampled
    /\ \/ /\ interval_mins = 1443
          /\ Plan.samples = 48 /\ Plan.interval_id = 1800
          /\ interval_mins * 60 - Plan.samples * Plan.interval_id = 180
       \/ /\ interval_mins = 10085
          /\ Plan.samples = 84 /\ Plan.interval_id = 7200
          /\ interval_mins * 60 - Plan.samples * Plan.interval_id = 300

=============================================================================
